---- MODULE Spec2Model ----
(***************************************************************************)
(* Voice-agent engine: progressive-trust authentication (Banking_Agent),   *)
(* HIPAA session manager (Healthcare_Agent), the duplex stream handler and *)
(* audio player (Retail_Agent/Club_Call_Center_Agent) and the inline event *)
(* pump of Banking_Agent.  Each subsystem has its own specification over   *)
(* its own variables; the other subsystems' variables stay at their        *)
(* initial value.                                                          *)
(***************************************************************************)
EXTENDS Integers, Sequences, FiniteSets, TLC

(***************************************************************************)
(* Bounds of the model.                                                    *)
(***************************************************************************)
MaxTime == 31
MaxAudit == 4
MaxSessions == 2
MaxHealthAudit == 5
MaxHealthSessions == 1
MaxToolTasks == 1
MaxChunks == 2
MaxBankEvents == 3
MaxTransfers == 1
MaxItems == 2

(***************************************************************************)
(* Program constants (Banking_Agent/config/constants.py).                  *)
(***************************************************************************)
SESSION_TIMEOUT_MINUTES == 30
OTP_EXPIRY_MINUTES == 5
AUTH_LEVEL_1 == "Level1"
AUTH_LEVEL_2 == "Level2"
AUTH_LEVEL_3 == "Level3"
AUDIT_RESULT_SUCCESS == "SUCCESS"
AUDIT_RESULT_FAILURE == "FAILURE"
TOOL_AUTHENTICATE == "authenticatetool"
TOOL_VERIFY_OTP == "verifyotptool"
TOOL_STEP_UP_AUTH == "stepupauthenticationtool"
TOOL_INTERNAL_TRANSFER == "internaltransfertool"
TOOL_STOP_PAYMENT == "stoppaymenttool"

VARIABLES
    now,                 \* wall clock, minutes
    auth_sessions_table, \* Banking: sessionId -> session item
    audit_logs_table,    \* Banking: sequence of audit entries, oldest first
    current_session_id,  \* BankingToolProcessor.current_session_id (0 = None)
    accounts_table,      \* Banking: accountId -> [balance, availableBalance]
    transfers_table      \* Banking: sequence of transfer items

bankVars == <<now, auth_sessions_table, audit_logs_table, current_session_id,
              accounts_table, transfers_table>>

VARIABLES
    utcnow,          \* Healthcare: datetime.utcnow(), minutes
    sessions_table,  \* Healthcare: sessionId -> session item
    audit_table      \* Healthcare: sequence of audit entries, oldest first

healthVars == <<utcnow, sessions_table, audit_table>>

VARIABLES
    is_active,           \* Retail BedrockStreamManager.is_active
    barge_in,            \* BedrockStreamManager.barge_in
    audio_output_queue,  \* BedrockStreamManager.audio_output_queue, head first
    toolUseId,           \* BedrockStreamManager.toolUseId, the last toolUse seen
    pending_tool_tasks,  \* keys of BedrockStreamManager.pending_tool_tasks
    tool_tasks,          \* the tasks handle_tool_request created, by content name
    response_task,       \* where the task running _process_responses is
    close_task,          \* where stop_streaming()/close() is
    close_sent,          \* the events of close() the model received
    is_streaming,        \* AudioStreamer.is_streaming
    output_task,         \* where the task running play_output_audio is
    audio_data,          \* the chunk play_output_audio took from the queue
    next_chunk,          \* audio chunks received from the model so far
    device_written,      \* chunks written to the output device
    queued_at_barge_in,  \* history: chunks that were queued when a barge-in was processed
    pending_at_barge_in  \* history: dispatches that were pending when a barge-in was processed

streamVars == <<is_active, barge_in, audio_output_queue, toolUseId, pending_tool_tasks,
                tool_tasks, response_task, close_task, close_sent, is_streaming,
                output_task, audio_data, next_chunk, device_written,
                queued_at_barge_in, pending_at_barge_in>>

VARIABLES
    bank_pump,          \* Banking: where process_stream_events is
    bank_stream,        \* Banking: events of self.stream not yet received
    bank_events,        \* Banking: events the model has sent so far
    bank_output_queue,  \* Banking: chunks put on output_queue
    bank_tasks,         \* Banking: the task process_tool_async created and awaits
    bank_results        \* Banking: tool results sent back to the model

pumpVars == <<bank_pump, bank_stream, bank_events, bank_output_queue, bank_tasks,
              bank_results>>

VARIABLES
    touch_pc,       \* Healthcare: where each concurrent caller of update_activity is
    touch_now,      \* Healthcare: the utcnow() each caller read (-1 = none)
    verify_pending, \* Banking: the session a running verify_otp has upgraded and
                    \* not yet audited (0 = none)
    handler_thread  \* Banking: the clock reading of the executor thread that is
                    \* inside InternalTransferTool.execute between its account
                    \* updates and its audit_action (-1 = none)

callVars == <<touch_pc, touch_now, verify_pending, handler_thread>>

VARIABLES
    audit_items     \* Healthcare: the items AuditLogger.log_event put, every
                    \* attribute kept, oldest first

itemVars == <<audit_items>>

VARIABLES
    handler_sid     \* Banking: the session a transfer handler in flight made its
                    \* check_auth_level for (0 = no transfer in flight)

VARIABLES
    availability_table, \* Healthcare: slotId -> the slot item (status, heldBy,
                        \* holdExpiresAt)
    hold_pc,            \* Healthcare: for each calling session, the slot its
                        \* HoldSlotTool.execute has read as available and not
                        \* yet written ("None" = no call in flight)
    hold_results        \* Healthcare: the <<session, slot>> pairs for which
                        \* HoldSlotTool.execute returned held = True

holdVars == <<availability_table, hold_pc, hold_results>>

VARIABLES
    retail_log          \* Retail: for every _run_tool call so far, the tool
                        \* name it was given and the handler that ran

raceVars == <<handler_sid, holdVars, retail_log>>

\* a step of one subsystem leaves the variables of the others alone
BankOnly == UNCHANGED <<healthVars, streamVars, pumpVars, callVars, itemVars, raceVars>>
HealthOnly == UNCHANGED <<bankVars, streamVars, pumpVars, callVars, itemVars, raceVars>>
StreamOnly == UNCHANGED <<bankVars, healthVars, pumpVars, callVars, itemVars, raceVars>>
PumpOnly == UNCHANGED <<bankVars, healthVars, streamVars, callVars, itemVars, raceVars>>

\* _run_tool runs either called directly on the processor (no pump started) or as
\* the task process_tool_async created, which is finished when _run_tool returns
RunsAsToolTask ==
    /\ bank_pump = "none" \/ bank_tasks = "running"
    /\ bank_tasks' = IF bank_tasks = "running" THEN "finished" ELSE bank_tasks
    /\ UNCHANGED <<bank_pump, bank_stream, bank_events, bank_output_queue, bank_results>>
    /\ UNCHANGED <<healthVars, streamVars, callVars, itemVars, raceVars>>

(***************************************************************************)
(* Inputs enumerated by the model.                                         *)
(***************************************************************************)
TickSteps == {2 * OTP_EXPIRY_MINUTES, SESSION_TIMEOUT_MINUTES + 1}
NoSession == 0
NoValue == "None"
OtpCodes == {"111111", "222222"}
Phones == {"555-0101", "555-9999"}
\* arguments of internalTransferTool: <<fromAccountId, toAccountId, amount>>;
\* amount 0 is a missing amount, amount -1 one that float() cannot convert
TransferArgs ==
    {<<"ACC-1", "ACC-2", 1>>, <<"ACC-2", "ACC-1", 2>>, <<"ACC-1", "ACC-1", 1>>,
     <<"ACC-1", "ACC-9", 1>>, <<"ACC-0", "ACC-2", 1>>, <<"ACC-1", "ACC-2", -1>>,
     <<"ACC-1", NoValue, 1>>, <<"ACC-1", "ACC-2", 0>>}
\* arguments of stopPaymentTool: <<accountId, checkNumber>>
StopPaymentArgs ==
    {<<"ACC-1", "1001">>, <<"ACC-9", "1001">>, <<"ACC-0", "1001">>,
     <<NoValue, "1001">>, <<"ACC-1", NoValue>>}
\* arguments of stepUpAuthenticationTool: <<action, questionType, answer>>
StepUpArgs ==
    {<<"get_question", NoValue, NoValue>>, <<"reset", NoValue, NoValue>>,
     <<"verify_answer", NoValue, "Johnson">>,
     <<"verify_answer", "mothersMaidenName", "Johnson">>,
     <<"verify_answer", "mothersMaidenName", "Smith">>,
     <<"verify_answer", "favoriteColor", "Johnson">>}

\* customers_table.scan(phone): the customers with that phone number
CustomerOfPhone(phone) ==
    CASE phone = "555-0101" -> <<"CUST-001">>
      [] phone = "555-0102" -> <<"CUST-002">>
      [] OTHER -> <<>>

\* accounts_table item attribute customerId (never rewritten)
AccountOwner(acc) ==
    CASE acc = "ACC-1" -> "CUST-001"
      [] acc = "ACC-2" -> "CUST-001"
      [] OTHER -> "CUST-002"

\* hashlib.sha256(answer).hexdigest(): injective on the answers enumerated
Sha256(answer) == <<"sha256", answer>>

\* customer['securityQuestions'].get(question_type)
StoredHash(cust, qtype) ==
    IF qtype = "mothersMaidenName" THEN Sha256("Johnson") ELSE <<"None", "None">>

\* level_hierarchy.get(level, 0)
LevelNum(level) ==
    CASE level = AUTH_LEVEL_1 -> 1
      [] level = AUTH_LEVEL_2 -> 2
      [] level = AUTH_LEVEL_3 -> 3
      [] OTHER -> 0

(***************************************************************************)
(* BankingAuthenticationManager.  The DynamoDB tables are passed and       *)
(* returned explicitly: s is auth_sessions_table, a is audit_logs_table,   *)
(* t the time of the call; every operator returns the tables after the     *)
(* call together with the value the method returns.                        *)
(***************************************************************************)

\* get_session(session_id) is not None
get_session(s, sid, t) ==
    /\ sid \in DOMAIN s
    /\ ~(t > s[sid].expiresAt)

\* an _audit_log whose put_item reuses the key of the newest entry
audit_log_replacing_last(a, sid, cust, action, resource, result, level) ==
    LET entry == [sessionId |-> sid, customerId |-> cust, action |-> action,
                  resource |-> resource, result |-> result, authLevel |-> level]
    IN IF a = <<>> THEN <<entry>> ELSE [a EXCEPT ![Len(a)] = entry]

\* _audit_log: put one entry
audit_log(a, sid, cust, action, resource, result, level) ==
    Append(a, [sessionId |-> sid, customerId |-> cust, action |-> action,
               resource |-> resource, result |-> result, authLevel |-> level])

\* the item create_session puts
NewSession(cust, t) ==
    [customerId |-> cust,
     authLevel |-> AUTH_LEVEL_1,
     authFactors |-> <<"Phone">>,
     mfaCompleted |-> FALSE,
     otpSent |-> FALSE,
     otpCode |-> NoValue,
     otpExpiry |-> -1,
     knowledgeAnswered |-> <<>>,
     lastActivity |-> t,
     expiresAt |-> t + SESSION_TIMEOUT_MINUTES,
     consentRecorded |-> FALSE]

\* create_session(phone); the new id is fresh (timestamp plus random suffix)
create_session(s, a, phone, t) ==
    LET customers == CustomerOfPhone(phone)
        sid == Cardinality(DOMAIN s) + 1
    IN IF customers = <<>>
       THEN [s |-> s, a |-> a, found |-> FALSE, sessionId |-> NoSession]
       ELSE [s |-> [x \in DOMAIN s \cup {sid} |->
                       IF x = sid THEN NewSession(customers[1], t) ELSE s[x]],
             a |-> audit_log(a, sid, customers[1], "SESSION_CREATED", NoValue,
                             AUDIT_RESULT_SUCCESS, AUTH_LEVEL_1),
             found |-> TRUE, sessionId |-> sid]

\* update_last_activity(session_id)
update_last_activity(s, sid, t) ==
    [s EXCEPT ![sid].lastActivity = t]

\* a send_otp whose code is already expired when it is stored
send_otp_expired_at_once(s, a, sid, t, otp) ==
    IF ~get_session(s, sid, t)
    THEN [s |-> s, a |-> a, success |-> FALSE, kind |-> "session_not_found"]
    ELSE [s |-> [s EXCEPT ![sid].otpSent = TRUE,
                          ![sid].otpCode = otp,
                          ![sid].otpExpiry = t - 1],
          a |-> audit_log(a, sid, s[sid].customerId, "OTP_SENT", NoValue,
                          AUDIT_RESULT_SUCCESS, s[sid].authLevel),
          success |-> TRUE, kind |-> "otp_sent"]

\* send_otp(session_id); otp is the code random.randint draws
send_otp(s, a, sid, t, otp) ==
    IF ~get_session(s, sid, t)
    THEN [s |-> s, a |-> a, success |-> FALSE, kind |-> "session_not_found"]
    ELSE [s |-> [s EXCEPT ![sid].otpSent = TRUE,
                          ![sid].otpCode = otp,
                          ![sid].otpExpiry = t + OTP_EXPIRY_MINUTES],
          a |-> audit_log(a, sid, s[sid].customerId, "OTP_SENT", NoValue,
                          AUDIT_RESULT_SUCCESS, s[sid].authLevel),
          success |-> TRUE, kind |-> "otp_sent"]

\* a verify_otp that withdraws the pending code after a wrong attempt
verify_otp_withdrawing_on_failure(s, a, sid, t, provided_otp) ==
    IF ~get_session(s, sid, t)
    THEN [s |-> s, a |-> a, success |-> FALSE, kind |-> "session_not_found"]
    ELSE IF ~s[sid].otpSent
    THEN [s |-> s, a |-> a, success |-> FALSE, kind |-> "no_otp_sent"]
    ELSE IF t > s[sid].otpExpiry
    THEN [s |-> s, a |-> a, success |-> FALSE, kind |-> "otp_expired"]
    ELSE IF provided_otp # s[sid].otpCode
    THEN [s |-> [s EXCEPT ![sid].otpSent = FALSE],
          a |-> audit_log(a, sid, s[sid].customerId, "OTP_VERIFY_FAILED", NoValue,
                          AUDIT_RESULT_FAILURE, s[sid].authLevel),
          success |-> FALSE, kind |-> "incorrect_otp"]
    ELSE [s |-> [s EXCEPT ![sid].authLevel = AUTH_LEVEL_2,
                          ![sid].mfaCompleted = TRUE,
                          ![sid].authFactors = <<"Phone", "OTP">>],
          a |-> audit_log(a, sid, s[sid].customerId, "OTP_VERIFIED", NoValue,
                          AUDIT_RESULT_SUCCESS, AUTH_LEVEL_2),
          success |-> TRUE, kind |-> "otp_verified"]

\* a verify_otp that compares the code before it looks at the expiry
verify_otp_comparing_first(s, a, sid, t, provided_otp) ==
    IF ~get_session(s, sid, t)
    THEN [s |-> s, a |-> a, success |-> FALSE, kind |-> "session_not_found"]
    ELSE IF ~s[sid].otpSent
    THEN [s |-> s, a |-> a, success |-> FALSE, kind |-> "no_otp_sent"]
    ELSE IF provided_otp # s[sid].otpCode
    THEN [s |-> s,
          a |-> audit_log(a, sid, s[sid].customerId, "OTP_VERIFY_FAILED", NoValue,
                          AUDIT_RESULT_FAILURE, s[sid].authLevel),
          success |-> FALSE, kind |-> "incorrect_otp"]
    ELSE IF t > s[sid].otpExpiry
    THEN [s |-> s, a |-> a, success |-> FALSE, kind |-> "otp_expired"]
    ELSE [s |-> [s EXCEPT ![sid].authLevel = AUTH_LEVEL_2,
                          ![sid].mfaCompleted = TRUE,
                          ![sid].authFactors = <<"Phone", "OTP">>],
          a |-> audit_log(a, sid, s[sid].customerId, "OTP_VERIFIED", NoValue,
                          AUDIT_RESULT_SUCCESS, AUTH_LEVEL_2),
          success |-> TRUE, kind |-> "otp_verified"]

\* verify_otp(session_id, provided_otp)
verify_otp(s, a, sid, t, provided_otp) ==
    IF ~get_session(s, sid, t)
    THEN [s |-> s, a |-> a, success |-> FALSE, kind |-> "session_not_found"]
    ELSE IF ~s[sid].otpSent
    THEN [s |-> s, a |-> a, success |-> FALSE, kind |-> "no_otp_sent"]
    ELSE IF t > s[sid].otpExpiry
    THEN [s |-> s, a |-> a, success |-> FALSE, kind |-> "otp_expired"]
    ELSE IF provided_otp # s[sid].otpCode
    THEN [s |-> s,
          a |-> audit_log(a, sid, s[sid].customerId, "OTP_VERIFY_FAILED", NoValue,
                          AUDIT_RESULT_FAILURE, s[sid].authLevel),
          success |-> FALSE, kind |-> "incorrect_otp"]
    ELSE [s |-> [s EXCEPT ![sid].authLevel = AUTH_LEVEL_2,
                          ![sid].mfaCompleted = TRUE,
                          ![sid].authFactors = <<"Phone", "OTP">>],
          a |-> audit_log(a, sid, s[sid].customerId, "OTP_VERIFIED", NoValue,
                          AUDIT_RESULT_SUCCESS, AUTH_LEVEL_2),
          success |-> TRUE, kind |-> "otp_verified"]

\* ask_knowledge_question(session_id) is not None
ask_knowledge_question(s, sid, t) ==
    get_session(s, sid, t)

\* verify_knowledge_answer(session_id, question_type, answer)
verify_knowledge_answer(s, a, sid, t, question_type, answer) ==
    IF ~get_session(s, sid, t)
    THEN [s |-> s, a |-> a, success |-> FALSE, kind |-> "session_not_found"]
    ELSE IF Sha256(answer) # StoredHash(s[sid].customerId, question_type)
    THEN [s |-> s,
          a |-> audit_log(a, sid, s[sid].customerId, "KNOWLEDGE_AUTH_FAILED", NoValue,
                          AUDIT_RESULT_FAILURE, s[sid].authLevel),
          success |-> FALSE, kind |-> "incorrect_answer"]
    ELSE [s |-> [s EXCEPT ![sid].authLevel = AUTH_LEVEL_3,
                          ![sid].knowledgeAnswered = Append(@, question_type),
                          ![sid].authFactors = <<"Phone", "OTP", "Knowledge">>],
          a |-> audit_log(a, sid, s[sid].customerId, "KNOWLEDGE_AUTH_SUCCESS", NoValue,
                          AUDIT_RESULT_SUCCESS, AUTH_LEVEL_3),
          success |-> TRUE, kind |-> "knowledge_verified"]

\* a comparison that forgets the required level: any known level suffices
LevelSufficesIgnoringRequired(current_level, required_level) ==
    LevelNum(current_level) >= LevelNum(AUTH_LEVEL_1)

\* the comparison check_auth_level makes between the two levels
LevelSuffices(current_level, required_level) ==
    LevelNum(current_level) >= LevelNum(required_level)

\* check_auth_level(session_id, required_level): (authorized, message, current_level)
check_auth_level(s, sid, t, required_level) ==
    IF ~get_session(s, sid, t)
    THEN [s |-> s, authorized |-> FALSE, current_level |-> NoValue]
    ELSE IF LevelSuffices(s[sid].authLevel, required_level)
    THEN [s |-> update_last_activity(s, sid, t), authorized |-> TRUE,
          current_level |-> s[sid].authLevel]
    ELSE [s |-> s, authorized |-> FALSE, current_level |-> s[sid].authLevel]

\* record_consent(session_id, ...): the session part of it
record_consent(s, sid, t) ==
    IF ~get_session(s, sid, t) THEN s
    ELSE [s EXCEPT ![sid].consentRecorded = TRUE]

(***************************************************************************)
(* BaseTool and the banking tools.  cur is the tool's current_session_id,  *)
(* which _run_tool sets from the processor before execute runs.            *)
(***************************************************************************)

\* BaseTool.check_auth_level(required_level): (authorized, error, current_level)
base_check_auth_level(s, a, cur, t, required_level, otp) ==
    IF cur = NoSession
    THEN [s |-> s, a |-> a, authorized |-> FALSE, kind |-> "no_active_session"]
    ELSE LET c == check_auth_level(s, cur, t, required_level)
         IN IF c.authorized
            THEN [s |-> c.s, a |-> a, authorized |-> TRUE, kind |-> "authorized"]
            ELSE IF required_level = AUTH_LEVEL_2 /\ c.current_level = AUTH_LEVEL_1
            THEN LET o == send_otp(c.s, a, cur, t, otp)
                 IN [s |-> o.s, a |-> o.a, authorized |-> FALSE,
                     kind |-> "not_authorized_verify_otp"]
            ELSE [s |-> c.s, a |-> a, authorized |-> FALSE,
                  kind |-> "not_authorized_step_up"]

\* BaseTool.audit_action(action, resource, result)
audit_action(s, a, cur, t, action, resource, result) ==
    IF cur # NoSession /\ get_session(s, cur, t)
    THEN audit_log(a, cur, s[cur].customerId, action, resource, result, s[cur].authLevel)
    ELSE a

\* the item InternalTransferTool puts into transfers_table
TransferItem(cust, from, to, amount) ==
    [customerId |-> cust, fromAccountId |-> from, toAccountId |-> to,
     amount |-> amount, status |-> "Completed"]

\* InternalTransferTool.execute
InternalTransferTool_execute(s, a, acc, tr, cur, t, from, to, amount, otp) ==
    LET g == base_check_auth_level(s, a, cur, t, AUTH_LEVEL_2, otp)
        cust == g.s[cur].customerId
        same == [s |-> g.s, a |-> g.a, acc |-> acc, tr |-> tr, kind |-> "none"]
    IN IF ~g.authorized
       THEN [same EXCEPT !.kind = g.kind]
       ELSE IF from = NoValue \/ to = NoValue \/ amount = 0
       THEN [same EXCEPT !.kind = "missing_arguments"]
       ELSE IF from \notin DOMAIN acc \/ to \notin DOMAIN acc
       THEN [same EXCEPT !.kind = "accounts_not_found"]
       ELSE IF AccountOwner(from) # cust \/ AccountOwner(to) # cust
       THEN [same EXCEPT !.kind = "accounts_not_yours"]
       ELSE IF amount < 0
       THEN [same EXCEPT !.a = audit_action(g.s, g.a, cur, t, "INTERNAL_TRANSFER",
                                            NoValue, AUDIT_RESULT_FAILURE),
                         !.kind = "exception"]
       ELSE IF acc[from].availableBalance < amount
       THEN [same EXCEPT !.kind = "insufficient_funds"]
       ELSE [s |-> g.s,
             a |-> audit_action(g.s, g.a, cur, t, "INTERNAL_TRANSFER",
                                "XFER", AUDIT_RESULT_SUCCESS),
             acc |-> [acc EXCEPT
                        ![from] = [balance |-> acc[from].balance - amount,
                                   availableBalance |-> acc[from].balance - amount],
                        ![to] = [balance |-> acc[to].balance + amount,
                                 availableBalance |-> acc[to].balance + amount]],
             tr |-> Append(tr, TransferItem(cust, from, to, amount)),
             kind |-> "success"]

\* StopPaymentTool.execute; the stop payment itself is only written to the audit trail
StopPaymentTool_execute(s, a, acc, cur, t, accountId, checkNumber, otp) ==
    LET g == base_check_auth_level(s, a, cur, t, AUTH_LEVEL_3, otp)
        cust == g.s[cur].customerId
    IN IF ~g.authorized
       THEN [s |-> g.s, a |-> g.a, kind |-> g.kind]
       ELSE IF accountId = NoValue \/ checkNumber = NoValue
       THEN [s |-> g.s, a |-> g.a, kind |-> "missing_arguments"]
       ELSE IF accountId \notin DOMAIN acc \/ AccountOwner(accountId) # cust
       THEN [s |-> g.s, a |-> g.a, kind |-> "unauthorized_account"]
       ELSE [s |-> g.s,
             a |-> audit_action(g.s, g.a, cur, t, "STOP_PAYMENT", "STOP",
                                AUDIT_RESULT_SUCCESS),
             kind |-> "success"]

\* AuthenticateTool.execute; sessionId is the session the result carries
AuthenticateTool_execute(s, a, t, phone) ==
    IF phone = NoValue
    THEN [s |-> s, a |-> a, kind |-> "missing_arguments", sessionId |-> NoSession]
    ELSE LET c == create_session(s, a, phone, t)
         IN IF ~c.found
            THEN [s |-> s, a |-> a, kind |-> "not_authenticated", sessionId |-> NoSession]
            ELSE [s |-> record_consent(c.s, c.sessionId, t), a |-> c.a,
                  kind |-> "authenticated", sessionId |-> c.sessionId]

\* VerifyOtpTool.execute
VerifyOtpTool_execute(s, a, cur, t, otpCode) ==
    IF cur = NoSession
    THEN [s |-> s, a |-> a, kind |-> "no_active_session"]
    ELSE IF otpCode = NoValue
    THEN [s |-> s, a |-> a, kind |-> "missing_arguments"]
    ELSE LET v == verify_otp(s, a, cur, t, otpCode)
         IN [s |-> v.s, a |-> v.a, kind |-> v.kind]

\* StepUpAuthenticationTool.execute
StepUpAuthenticationTool_execute(s, a, cur, t, action, questionType, answer) ==
    IF cur = NoSession
    THEN [s |-> s, a |-> a, kind |-> "no_active_session"]
    ELSE IF action = "get_question"
    THEN [s |-> s, a |-> a,
          kind |-> IF ask_knowledge_question(s, cur, t)
                   THEN "question" ELSE "no_question"]
    ELSE IF action = "verify_answer"
    THEN IF questionType = NoValue \/ answer = NoValue
         THEN [s |-> s, a |-> a, kind |-> "missing_arguments"]
         ELSE LET v == verify_knowledge_answer(s, a, cur, t, questionType, answer)
              IN [s |-> v.s, a |-> v.a, kind |-> v.kind]
    ELSE [s |-> s, a |-> a, kind |-> "invalid_action"]

\* tool_name.lower().replace(" ", "") on the names the model enumerates
RawToolNames ==
    {"authenticateTool", "verifyOtpTool", "stepUpAuthenticationTool",
     "internalTransferTool", "Stop Payment Tool", "wireTransferTool"}

NormalizeToolName(tool_name) ==
    CASE tool_name = "authenticateTool" -> "authenticatetool"
      [] tool_name = "verifyOtpTool" -> "verifyotptool"
      [] tool_name = "stepUpAuthenticationTool" -> "stepupauthenticationtool"
      [] tool_name = "internalTransferTool" -> "internaltransfertool"
      [] tool_name = "Stop Payment Tool" -> "stoppaymenttool"
      [] OTHER -> "wiretransfertool"

\* the keys of BankingToolProcessor.tools that the model covers
RegisteredTools ==
    {TOOL_AUTHENTICATE, TOOL_VERIFY_OTP, TOOL_STEP_UP_AUTH,
     TOOL_INTERNAL_TRANSFER, TOOL_STOP_PAYMENT}

(***************************************************************************)
(* BankingToolProcessor._run_tool, one action per registered tool: look    *)
(* the normalized name up, bind the processor's current session to the     *)
(* tool instance, execute, and keep the result.                            *)
(***************************************************************************)
BankInit ==
    /\ now = 0
    /\ auth_sessions_table = <<>>
    /\ audit_logs_table = <<>>
    /\ current_session_id = NoSession
    /\ accounts_table = [x \in {"ACC-1", "ACC-2", "ACC-9"} |->
                            [balance |-> 1, availableBalance |-> 1]]
    /\ transfers_table = <<>>

\* what bounds the tables of the model
BankWithinBounds ==
    /\ Len(audit_logs_table') <= MaxAudit
    /\ Cardinality(DOMAIN auth_sessions_table') <= MaxSessions
    /\ Len(transfers_table') <= MaxTransfers

\* time passes
BankTick(d) ==
    /\ now + d <= MaxTime
    /\ now' = now + d
    /\ UNCHANGED <<auth_sessions_table, audit_logs_table, current_session_id,
                   accounts_table, transfers_table>>
    /\ BankOnly

RunAuthenticateTool(tool_name, phone) ==
    /\ NormalizeToolName(tool_name) = TOOL_AUTHENTICATE
    /\ LET r == AuthenticateTool_execute(auth_sessions_table, audit_logs_table, now, phone)
       IN /\ auth_sessions_table' = r.s
          /\ audit_logs_table' = r.a
          /\ current_session_id' =
                 IF r.kind = "authenticated" THEN r.sessionId ELSE current_session_id
    /\ UNCHANGED <<now, accounts_table, transfers_table>>
    /\ BankWithinBounds
    /\ RunsAsToolTask

RunVerifyOtpTool(tool_name, otpCode) ==
    /\ NormalizeToolName(tool_name) = TOOL_VERIFY_OTP
    /\ LET r == VerifyOtpTool_execute(auth_sessions_table, audit_logs_table,
                                      current_session_id, now, otpCode)
       IN /\ auth_sessions_table' = r.s
          /\ audit_logs_table' = r.a
    /\ UNCHANGED <<now, current_session_id, accounts_table, transfers_table>>
    /\ BankWithinBounds
    /\ RunsAsToolTask

RunStepUpAuthenticationTool(tool_name, action, questionType, answer) ==
    /\ NormalizeToolName(tool_name) = TOOL_STEP_UP_AUTH
    /\ LET r == StepUpAuthenticationTool_execute(auth_sessions_table, audit_logs_table,
                     current_session_id, now, action, questionType, answer)
       IN /\ auth_sessions_table' = r.s
          /\ audit_logs_table' = r.a
    /\ UNCHANGED <<now, current_session_id, accounts_table, transfers_table>>
    /\ BankWithinBounds
    /\ RunsAsToolTask

RunInternalTransferTool(tool_name, from, to, amount, otp) ==
    /\ NormalizeToolName(tool_name) = TOOL_INTERNAL_TRANSFER
    /\ LET r == InternalTransferTool_execute(auth_sessions_table, audit_logs_table,
                     accounts_table, transfers_table, current_session_id, now,
                     from, to, amount, otp)
       IN /\ auth_sessions_table' = r.s
          /\ audit_logs_table' = r.a
          /\ accounts_table' = r.acc
          /\ transfers_table' = r.tr
    /\ UNCHANGED <<now, current_session_id>>
    /\ BankWithinBounds
    /\ RunsAsToolTask

RunStopPaymentTool(tool_name, accountId, checkNumber, otp) ==
    /\ NormalizeToolName(tool_name) = TOOL_STOP_PAYMENT
    /\ LET r == StopPaymentTool_execute(auth_sessions_table, audit_logs_table,
                     accounts_table, current_session_id, now, accountId, checkNumber, otp)
       IN /\ auth_sessions_table' = r.s
          /\ audit_logs_table' = r.a
    /\ UNCHANGED <<now, current_session_id, accounts_table, transfers_table>>
    /\ BankWithinBounds
    /\ RunsAsToolTask

RunUnsupportedTool(tool_name) ==
    /\ NormalizeToolName(tool_name) \notin RegisteredTools
    /\ UNCHANGED <<now, auth_sessions_table, audit_logs_table, current_session_id,
                   accounts_table, transfers_table>>
    /\ RunsAsToolTask

\* _run_tool(tool_name, tool_content) for every name and content
RunTool ==
    \E tool_name \in RawToolNames :
        \/ \E phone \in Phones \cup {NoValue} : RunAuthenticateTool(tool_name, phone)
        \/ \E otpCode \in OtpCodes \cup {NoValue} : RunVerifyOtpTool(tool_name, otpCode)
        \/ \E x \in StepUpArgs :
               RunStepUpAuthenticationTool(tool_name, x[1], x[2], x[3])
        \/ \E x \in TransferArgs, otp \in OtpCodes :
               RunInternalTransferTool(tool_name, x[1], x[2], x[3], otp)
        \/ \E x \in StopPaymentArgs, otp \in OtpCodes :
               RunStopPaymentTool(tool_name, x[1], x[2], otp)
        \/ RunUnsupportedTool(tool_name)

BankNext ==
    \/ \E d \in TickSteps : BankTick(d)
    \/ RunTool



(***************************************************************************)
(* Healthcare_Agent: SessionManager, AuditLogger and the verification      *)
(* tools.  hs is sessions_table, ha is audit_table, t the time of the      *)
(* call.  The session id a tool works on is the sessionId of its arguments.*)
(***************************************************************************)
HC_SESSION_TIMEOUT_MINUTES == 15
HC_SESSION_WARNING_MINUTES == 13
VERIFICATION_LEVEL_NONE == 0
VERIFICATION_LEVEL_LIGHT == 1
VERIFICATION_LEVEL_STANDARD == 2

\* the session ids a tool call can name
HealthSessionIds == 1..MaxHealthSessions
HealthTickSteps == {HC_SESSION_TIMEOUT_MINUTES \div 2 + 1, HC_SESSION_TIMEOUT_MINUTES + 1}
\* arguments of verifyIdentityTool: <<firstName, lastName, dateOfBirth>>
IdentityArgs ==
    {<<"Ann", "Lee", "1980-01-01">>, <<"Ann", "Lee", "1999-09-09">>,
     <<"Sam", "Roe", "1970-07-07">>, <<NoValue, "Lee", "1980-01-01">>}
\* arguments of verifyPhoneTool: <<patientId, phoneNumber>>
PhoneArgs ==
    {<<"PAT-1", "(555) 0101">>, <<"PAT-1", "555-9999">>, <<"PAT-0", "555-0101">>,
     <<"PAT-1", NoValue>>}

\* patients_table.scan(firstName, lastName, dateOfBirth): the matching patients
PatientsByNameAndDob(first_name, last_name, dob) ==
    CASE <<first_name, last_name, dob>> = <<"Ann", "Lee", "1980-01-01">> -> <<"PAT-1">>
      [] <<first_name, last_name, dob>> = <<"Sam", "Roe", "1970-07-07">> -> <<"PAT-2", "PAT-3">>
      [] OTHER -> <<>>

\* patients_table.get_item(patientId)['phoneNumber'], NoValue without an item
StoredPhone(patient_id) ==
    IF patient_id = "PAT-1" THEN "555-0101" ELSE NoValue

\* phone.replace('-', '').replace('(', '').replace(')', '').replace(' ', '')
StripPhone(phone) ==
    CASE phone = "555-0101" -> "5550101"
      [] phone = "(555) 0101" -> "5550101"
      [] phone = "555-9999" -> "5559999"
      [] OTHER -> phone

\* AuditLogger.log_event: put one entry
log_event(ha, event_type, user_id, session_id, action, success) ==
    Append(ha, [eventType |-> event_type,
                userId |-> IF user_id = NoValue THEN "ANONYMOUS" ELSE user_id,
                sessionId |-> session_id, action |-> action, success |-> success])

\* AuditLogger.log_session_event
log_session_event(ha, session_id, event, user_id) ==
    log_event(ha, "SESSION", user_id, session_id, event, TRUE)

\* f'VERIFY_{verification_type}'
VerifyAction(verification_type) ==
    CASE verification_type = "NAME_DOB" -> "VERIFY_NAME_DOB"
      [] verification_type = "PHONE" -> "VERIFY_PHONE"
      [] OTHER -> "VERIFY_"

\* AuditLogger.log_verification_attempt; user_id is details.get('user_id')
log_verification_attempt(ha, session_id, verification_type, success, user_id) ==
    log_event(ha, "AUTH", user_id, session_id, VerifyAction(verification_type), success)

\* AuditLogger.log_phi_access
log_phi_access(ha, user_id, session_id, action) ==
    log_event(ha, "PHI_ACCESS", user_id, session_id, action, TRUE)

\* AuditLogger.log_consent_capture
log_consent_capture(ha, user_id, session_id) ==
    log_event(ha, "CONSENT", user_id, session_id, "CAPTURE_CONSENT", TRUE)

\* the item SessionManager.create_session puts
NewHealthSession(t) ==
    [lastActivity |-> t,
     expiresAt |-> t + HC_SESSION_TIMEOUT_MINUTES,
     warningAt |-> t + HC_SESSION_WARNING_MINUTES,
     verified |-> FALSE,
     verificationLevel |-> VERIFICATION_LEVEL_NONE,
     userId |-> NoValue,
     consentGiven |-> FALSE,
     active |-> TRUE,
     terminatedAt |-> -1,
     terminationReason |-> NoValue]

\* SessionManager.create_session; the new id is fresh (uuid4)
SessionManager_create_session(hs, ha, t) ==
    LET sid == Cardinality(DOMAIN hs) + 1
    IN [s |-> [x \in DOMAIN hs \cup {sid} |->
                  IF x = sid THEN NewHealthSession(t) ELSE hs[x]],
        a |-> log_session_event(ha, sid, "SESSION_CREATED", NoValue),
        sessionId |-> sid]

\* SessionManager.terminate_session(session_id, reason)
SessionManager_terminate_session(hs, ha, sid, t, reason) ==
    [s |-> [hs EXCEPT ![sid].active = FALSE,
                      ![sid].terminatedAt = t,
                      ![sid].terminationReason = reason],
     a |-> log_session_event(ha, sid, "SESSION_TERMINATED", hs[sid].userId)]

\* SessionManager.get_session(session_id); found is "the result is not None"
SessionManager_get_session(hs, ha, sid, t) ==
    IF sid \notin DOMAIN hs
    THEN [s |-> hs, a |-> ha, found |-> FALSE]
    ELSE IF t > hs[sid].expiresAt
    THEN LET x == SessionManager_terminate_session(hs, ha, sid, t, "TIMEOUT")
         IN [s |-> x.s, a |-> x.a, found |-> FALSE]
    ELSE [s |-> hs, a |-> ha, found |-> TRUE]

\* SessionManager.update_activity(session_id)
SessionManager_update_activity(hs, ha, sid, t) ==
    LET g == SessionManager_get_session(hs, ha, sid, t)
    IN IF ~g.found
       THEN [s |-> g.s, a |-> g.a, updated |-> FALSE]
       ELSE [s |-> [g.s EXCEPT ![sid].lastActivity = t,
                               ![sid].expiresAt = t + HC_SESSION_TIMEOUT_MINUTES,
                               ![sid].warningAt = t + HC_SESSION_WARNING_MINUTES],
             a |-> g.a, updated |-> TRUE]

\* SessionManager.set_verified(session_id, user_id, verification_level)
SessionManager_set_verified(hs, ha, sid, user_id, verification_level) ==
    [s |-> [hs EXCEPT ![sid].verified = TRUE,
                      ![sid].userId = user_id,
                      ![sid].verificationLevel = verification_level],
     a |-> log_session_event(ha, sid, "SESSION_VERIFIED", user_id)]

\* SessionManager.set_consent(session_id, consent_given)
SessionManager_set_consent(hs, sid, consent_given) ==
    [hs EXCEPT ![sid].consentGiven = consent_given]

\* SessionManager.requires_verification(session_id, required_level)
SessionManager_requires_verification(hs, ha, sid, t, required_level) ==
    LET g == SessionManager_get_session(hs, ha, sid, t)
    IN [s |-> g.s, a |-> g.a,
        required |-> IF ~g.found THEN TRUE
                     ELSE g.s[sid].verificationLevel < required_level]


\* VerifyIdentityTool.execute
VerifyIdentityTool_execute(hs, ha, sid, first_name, last_name, dob) ==
    IF first_name = NoValue \/ last_name = NoValue \/ dob = NoValue
    THEN [s |-> hs, a |-> ha, kind |-> "missing_arguments"]
    ELSE LET a1 == log_verification_attempt(ha, sid, "NAME_DOB", FALSE, NoValue)
             items == PatientsByNameAndDob(first_name, last_name, dob)
         IN IF items = <<>>
            THEN [s |-> hs,
                  a |-> log_verification_attempt(a1, sid, "NAME_DOB", FALSE, NoValue),
                  kind |-> "not_found"]
            ELSE IF Len(items) > 1
            THEN [s |-> hs, a |-> a1, kind |-> "needs_additional_verification"]
            ELSE LET v == SessionManager_set_verified(hs, a1, sid, items[1],
                                                      VERIFICATION_LEVEL_LIGHT)
                 IN [s |-> v.s,
                     a |-> log_phi_access(
                               log_verification_attempt(v.a, sid, "NAME_DOB", TRUE, items[1]),
                               items[1], sid, "READ"),
                     kind |-> "verified"]

\* VerifyPhoneTool.execute
VerifyPhoneTool_execute(hs, ha, sid, patient_id, phone_number) ==
    IF patient_id = NoValue \/ phone_number = NoValue
    THEN [s |-> hs, a |-> ha, kind |-> "missing_arguments"]
    ELSE IF StoredPhone(patient_id) = NoValue
    THEN [s |-> hs, a |-> ha, kind |-> "patient_not_found"]
    ELSE IF StripPhone(StoredPhone(patient_id)) # StripPhone(phone_number)
    THEN [s |-> hs,
          a |-> log_verification_attempt(ha, sid, "PHONE", FALSE, patient_id),
          kind |-> "phone_mismatch"]
    ELSE LET v == SessionManager_set_verified(hs, ha, sid, patient_id,
                                              VERIFICATION_LEVEL_STANDARD)
         IN [s |-> v.s,
             a |-> log_verification_attempt(v.a, sid, "PHONE", TRUE, patient_id),
             kind |-> "verified"]

\* CaptureConsentTool.execute
CaptureConsentTool_execute(hs, ha, sid, patient_id, consent_given) ==
    IF patient_id = NoValue
    THEN [s |-> hs, a |-> ha, kind |-> "missing_arguments"]
    ELSE [s |-> SessionManager_set_consent(hs, sid, consent_given),
          a |-> log_consent_capture(ha, patient_id, sid),
          kind |-> IF consent_given THEN "consent_given" ELSE "consent_declined"]

(***************************************************************************)
(* ToolProcessor.process_tool_use(tool_name, tool_input).  A tool_input is *)
(* [sessionId, patientId, phoneNumber, consentGiven, notes], notes being   *)
(* the words of any free text the input carries.                           *)
(***************************************************************************)
TOOL_VERIFY_PHONE == "verifyphone"
TOOL_CAPTURE_CONSENT == "captureconsent"

\* the keys of ToolProcessor.tools that the model covers
HealthRegisteredTools == {TOOL_VERIFY_PHONE, TOOL_CAPTURE_CONSENT}

\* the names the model dispatches; the last is registered nowhere
HealthToolNames == HealthRegisteredTools \cup {"prescriberefill"}

\* the ESCALATION_KEYWORDS the inputs of the model can contain
ESCALATION_KEYWORDS == {"symptoms", "medication"}

NotesOfInput == {<<>>, <<"my", "symptoms", "are", "worse">>}

\* the inputs handed to process_tool_use
HealthToolInputs ==
    [sessionId : HealthSessionIds, patientId : {"PAT-1", NoValue},
     phoneNumber : {"(555) 0101"}, consentGiven : {TRUE}, notes : NotesOfInput]

\* _should_escalate(tool_input): some keyword occurs in the dumped input
should_escalate(tool_input) ==
    \E i \in 1..Len(tool_input.notes) : tool_input.notes[i] \in ESCALATION_KEYWORDS

\* a process_tool_use that hands an unknown name to the first registered tool
process_tool_use_with_default(hs, ha, tool_name, tool_input) ==
    IF should_escalate(tool_input)
    THEN [s |-> hs, a |-> ha, kind |-> "escalate", executed |-> FALSE]
    ELSE IF tool_name = TOOL_CAPTURE_CONSENT
    THEN LET r == CaptureConsentTool_execute(hs, ha, tool_input.sessionId,
                      tool_input.patientId, tool_input.consentGiven)
         IN [s |-> r.s, a |-> r.a, kind |-> r.kind, executed |-> TRUE]
    ELSE LET r == VerifyPhoneTool_execute(hs, ha, tool_input.sessionId,
                      tool_input.patientId, tool_input.phoneNumber)
         IN [s |-> r.s, a |-> r.a, kind |-> r.kind, executed |-> TRUE]

\* process_tool_use: the escalation check, the lookup, then tool.execute
process_tool_use(hs, ha, tool_name, tool_input) ==
    IF should_escalate(tool_input)
    THEN [s |-> hs, a |-> ha, kind |-> "escalate", executed |-> FALSE]
    ELSE IF tool_name \notin HealthRegisteredTools
    THEN [s |-> hs, a |-> ha, kind |-> "error_unknown_tool", executed |-> FALSE]
    ELSE IF tool_name = TOOL_VERIFY_PHONE
    THEN LET r == VerifyPhoneTool_execute(hs, ha, tool_input.sessionId,
                      tool_input.patientId, tool_input.phoneNumber)
         IN [s |-> r.s, a |-> r.a, kind |-> r.kind, executed |-> TRUE]
    ELSE LET r == CaptureConsentTool_execute(hs, ha, tool_input.sessionId,
                      tool_input.patientId, tool_input.consentGiven)
         IN [s |-> r.s, a |-> r.a, kind |-> r.kind, executed |-> TRUE]

(***************************************************************************)
(* The healthcare agent: one action per tool and session-manager call.     *)
(***************************************************************************)
HealthInit ==
    /\ utcnow = 0
    /\ sessions_table = <<>>
    /\ audit_table = <<>>

HealthWithinBounds ==
    /\ Len(audit_table') <= MaxHealthAudit
    /\ Cardinality(DOMAIN sessions_table') <= MaxHealthSessions

HealthTick(d) ==
    /\ utcnow + d <= MaxTime
    /\ utcnow' = utcnow + d
    /\ UNCHANGED <<sessions_table, audit_table>>
    /\ HealthOnly

\* healthcare_agent.main: session_manager.create_session()
StartHealthSession ==
    /\ LET r == SessionManager_create_session(sessions_table, audit_table, utcnow)
       IN /\ sessions_table' = r.s
          /\ audit_table' = r.a
    /\ UNCHANGED utcnow
    /\ HealthWithinBounds
    /\ HealthOnly

RunVerifyIdentityTool(sid, first_name, last_name, dob) ==
    /\ sid \in DOMAIN sessions_table
    /\ LET r == VerifyIdentityTool_execute(sessions_table, audit_table, sid,
                                           first_name, last_name, dob)
       IN /\ sessions_table' = r.s
          /\ audit_table' = r.a
    /\ UNCHANGED utcnow
    /\ HealthWithinBounds
    /\ HealthOnly

RunVerifyPhoneTool(sid, patient_id, phone_number) ==
    /\ sid \in DOMAIN sessions_table
    /\ LET r == VerifyPhoneTool_execute(sessions_table, audit_table, sid,
                                        patient_id, phone_number)
       IN /\ sessions_table' = r.s
          /\ audit_table' = r.a
    /\ UNCHANGED utcnow
    /\ HealthWithinBounds
    /\ HealthOnly

RunCaptureConsentTool(sid, patient_id, consent_given) ==
    /\ sid \in DOMAIN sessions_table
    /\ LET r == CaptureConsentTool_execute(sessions_table, audit_table, sid,
                                           patient_id, consent_given)
       IN /\ sessions_table' = r.s
          /\ audit_table' = r.a
    /\ UNCHANGED utcnow
    /\ HealthWithinBounds
    /\ HealthOnly

\* monitor_session_timeout: one round of the loop
MonitorSessionTimeout(sid) ==
    /\ sid \in DOMAIN sessions_table
    /\ LET r == SessionManager_get_session(sessions_table, audit_table, sid, utcnow)
       IN /\ sessions_table' = r.s
          /\ audit_table' = r.a
    /\ UNCHANGED utcnow
    /\ HealthWithinBounds
    /\ HealthOnly

\* SessionManager.update_activity called for a session
UpdateActivity(sid) ==
    /\ sid \in DOMAIN sessions_table
    /\ LET r == SessionManager_update_activity(sessions_table, audit_table, sid, utcnow)
       IN /\ sessions_table' = r.s
          /\ audit_table' = r.a
    /\ UNCHANGED utcnow
    /\ HealthWithinBounds
    /\ HealthOnly

\* healthcare_agent.main, finally: session_manager.terminate_session(session_id)
CleanupHealthSession(sid) ==
    /\ sid \in DOMAIN sessions_table
    /\ LET r == SessionManager_terminate_session(sessions_table, audit_table, sid,
                                                 utcnow, "USER_INITIATED")
       IN /\ sessions_table' = r.s
          /\ audit_table' = r.a
    /\ UNCHANGED utcnow
    /\ HealthWithinBounds
    /\ HealthOnly

HealthNext ==
    \/ \E d \in HealthTickSteps : HealthTick(d)
    \/ StartHealthSession
    \/ \E sid \in HealthSessionIds :
          \/ \E x \in IdentityArgs : RunVerifyIdentityTool(sid, x[1], x[2], x[3])
          \/ \E x \in PhoneArgs : RunVerifyPhoneTool(sid, x[1], x[2])
          \/ \E p \in {"PAT-1", NoValue}, c \in BOOLEAN : RunCaptureConsentTool(sid, p, c)
          \/ MonitorSessionTimeout(sid)
          \/ UpdateActivity(sid)
          \/ CleanupHealthSession(sid)


(***************************************************************************)
(* Retail_Agent/Club_Call_Center_Agent: BedrockStreamManager (the event    *)
(* pump _process_responses, the tool tasks, close) and AudioStreamer (the  *)
(* player play_output_audio).  Every action is one run of a coroutine from *)
(* one suspension point to the next.                                       *)
(***************************************************************************)
NoChunk == 0
ToolUseIds == {"tu-1", "tu-2"}
ToolResultEvents == <<"contentStart", "toolResult", "contentEnd">>

\* the task handle_tool_request creates for one invocation
NewToolTask(tool_use_id) ==
    [pc |-> "created", toolUseId |-> tool_use_id, cancel_requested |-> FALSE,
     is_error |-> FALSE, step |-> 1, delivered |-> <<>>]

\* send_raw_event(event): what the model has received of a sequence of events
\* after the call; sent_ok is whether input_stream.send returned normally
send_raw_event(received, event, active, sent_ok) ==
    IF ~active THEN received
    ELSE IF sent_ok THEN Append(received, event)
    ELSE received

\* a task is not finished
Unfinished(id) == tool_tasks[id].pc \notin {"done", "cancelled"}

\* the elements of a sequence
Range(seq) == {seq[i] : i \in 1..Len(seq)}

StreamInit ==
    /\ is_active = FALSE
    /\ barge_in = FALSE
    /\ audio_output_queue = <<>>
    /\ toolUseId = ""
    /\ pending_tool_tasks = {}
    /\ tool_tasks = <<>>
    /\ response_task = "none"
    /\ close_task = "none"
    /\ close_sent = <<>>
    /\ is_streaming = FALSE
    /\ output_task = "none"
    /\ audio_data = NoChunk
    /\ next_chunk = 0
    /\ device_written = {}
    /\ queued_at_barge_in = {}
    /\ pending_at_barge_in = {}

\* initialize_stream: the stream opens, the response task is created
InitializeStream ==
    /\ response_task = "none"
    /\ close_task = "none"
    /\ is_active' = TRUE
    /\ response_task' = "receiving"
    /\ UNCHANGED <<barge_in, audio_output_queue, toolUseId, pending_tool_tasks,
                   tool_tasks, close_task, close_sent, is_streaming, output_task,
                   audio_data, next_chunk, device_written, queued_at_barge_in,
                   pending_at_barge_in>>
    /\ StreamOnly

\* AudioStreamer.start_streaming up to the creation of the output task
StartStreaming ==
    /\ is_active
    /\ ~is_streaming
    /\ output_task = "none"
    /\ is_streaming' = TRUE
    /\ output_task' = "top"
    /\ UNCHANGED <<is_active, barge_in, audio_output_queue, toolUseId,
                   pending_tool_tasks, tool_tasks, response_task, close_task,
                   close_sent, audio_data, next_chunk, device_written,
                   queued_at_barge_in, pending_at_barge_in>>
    /\ StreamOnly

\* after an event is processed the pump tests "while self.is_active"
PumpLoops ==
    response_task' = IF is_active THEN "receiving" ELSE "done"


INTERRUPTED_TEXT == "{ \"interrupted\" : true }"
TextOutputs == {INTERRUPTED_TEXT, "Hello"}

\* '{ "interrupted" : true }' in text_content
IsInterruption(text) == text = INTERRUPTED_TEXT

\* _process_responses, textOutput: an interruption marker sets barge_in
PumpTextOutput(text) ==
    /\ response_task = "receiving"
    /\ barge_in' = (IsInterruption(text) \/ barge_in)
    /\ queued_at_barge_in' = IF IsInterruption(text)
                             THEN queued_at_barge_in \cup Range(audio_output_queue)
                             ELSE queued_at_barge_in
    /\ pending_at_barge_in' = IF IsInterruption(text)
                              THEN pending_at_barge_in \cup pending_tool_tasks
                              ELSE pending_at_barge_in
    /\ PumpLoops
    /\ UNCHANGED <<is_active, audio_output_queue, toolUseId, pending_tool_tasks,
                   tool_tasks, close_task, close_sent, is_streaming, output_task,
                   audio_data, next_chunk, device_written>>
    /\ StreamOnly

\* _process_responses, audioOutput: the chunk is put on audio_output_queue
PumpAudioOutput ==
    /\ response_task = "receiving"
    /\ next_chunk < MaxChunks
    /\ next_chunk' = next_chunk + 1
    /\ audio_output_queue' = Append(audio_output_queue, next_chunk + 1)
    /\ PumpLoops
    /\ UNCHANGED <<is_active, barge_in, toolUseId, pending_tool_tasks, tool_tasks,
                   close_task, close_sent, is_streaming, output_task, audio_data,
                   device_written, queued_at_barge_in, pending_at_barge_in>>
    /\ StreamOnly

\* _process_responses, toolUse: the invocation is kept in the registers
PumpToolUse(tool_use_id) ==
    /\ response_task = "receiving"
    /\ toolUseId' = tool_use_id
    /\ PumpLoops
    /\ UNCHANGED <<is_active, barge_in, audio_output_queue, pending_tool_tasks,
                   tool_tasks, close_task, close_sent, is_streaming, output_task,
                   audio_data, next_chunk, device_written, queued_at_barge_in,
                   pending_at_barge_in>>
    /\ StreamOnly

\* _process_responses, contentEnd of type TOOL: handle_tool_request
PumpContentEndTool ==
    /\ response_task = "receiving"
    /\ Len(tool_tasks) < MaxToolTasks
    /\ tool_tasks' = Append(tool_tasks, NewToolTask(toolUseId))
    /\ pending_tool_tasks' = pending_tool_tasks \cup {Len(tool_tasks) + 1}
    /\ PumpLoops
    /\ UNCHANGED <<is_active, barge_in, audio_output_queue, toolUseId, close_task,
                   close_sent, is_streaming, output_task, audio_data, next_chunk,
                   device_written, queued_at_barge_in, pending_at_barge_in>>
    /\ StreamOnly

\* _process_responses: the stream ends (StopAsyncIteration); finally is_active = False
PumpStreamEnds ==
    /\ response_task = "receiving"
    /\ response_task' = "done"
    /\ is_active' = FALSE
    /\ UNCHANGED <<barge_in, audio_output_queue, toolUseId, pending_tool_tasks,
                   tool_tasks, close_task, close_sent, is_streaming, output_task,
                   audio_data, next_chunk, device_written, queued_at_barge_in,
                   pending_at_barge_in>>
    /\ StreamOnly

\* _process_responses: await_output() or receive() raises (a fatal fault of the
\* inbound stream): the error is printed, the loop is left, finally
\* is_active = False; nothing else is done
PumpReceiveFails ==
    /\ response_task = "receiving"
    /\ response_task' = "failed"
    /\ is_active' = FALSE
    /\ UNCHANGED <<barge_in, audio_output_queue, toolUseId, pending_tool_tasks,
                   tool_tasks, close_task, close_sent, is_streaming, output_task,
                   audio_data, next_chunk, device_written, queued_at_barge_in,
                   pending_at_barge_in>>
    /\ StreamOnly

\* _process_responses: the CancelledError of close() arrives; finally is_active = False
PumpCancelled ==
    /\ response_task = "cancelling"
    /\ response_task' = "cancelled"
    /\ is_active' = FALSE
    /\ UNCHANGED <<barge_in, audio_output_queue, toolUseId, pending_tool_tasks,
                   tool_tasks, close_task, close_sent, is_streaming, output_task,
                   audio_data, next_chunk, device_written, queued_at_barge_in,
                   pending_at_barge_in>>
    /\ StreamOnly

\* _execute_tool_and_send_result starts and awaits process_tool_async
TaskStarts(id) ==
    /\ id \in DOMAIN tool_tasks
    /\ tool_tasks[id].pc = "created"
    /\ ~tool_tasks[id].cancel_requested
    /\ tool_tasks' = [tool_tasks EXCEPT ![id].pc = "tool"]
    /\ UNCHANGED <<is_active, barge_in, audio_output_queue, toolUseId,
                   pending_tool_tasks, response_task, close_task, close_sent,
                   is_streaming, output_task, audio_data, next_chunk, device_written,
                   queued_at_barge_in, pending_at_barge_in>>
    /\ StreamOnly

\* process_tool_async returns a result, or raises and the error result is built
TaskToolReturns(id, outcome) ==
    /\ id \in DOMAIN tool_tasks
    /\ tool_tasks[id].pc = "tool"
    /\ ~tool_tasks[id].cancel_requested
    /\ tool_tasks' = [tool_tasks EXCEPT ![id].pc = "sending",
                                        ![id].is_error = (outcome = "fault")]
    /\ UNCHANGED <<is_active, barge_in, audio_output_queue, toolUseId,
                   pending_tool_tasks, response_task, close_task, close_sent,
                   is_streaming, output_task, audio_data, next_chunk, device_written,
                   queued_at_barge_in, pending_at_barge_in>>
    /\ StreamOnly

\* one of send_tool_start_event, send_tool_result_event, send_tool_content_end_event;
\* after the last one the task is done and its done-callback removes the entry
TaskSends(id, sent_ok) ==
    /\ id \in DOMAIN tool_tasks
    /\ tool_tasks[id].pc = "sending"
    /\ ~tool_tasks[id].cancel_requested
    /\ LET task == tool_tasks[id]
           received == send_raw_event(task.delivered, ToolResultEvents[task.step],
                                      is_active, sent_ok)
       IN IF task.step < Len(ToolResultEvents)
          THEN /\ tool_tasks' = [tool_tasks EXCEPT ![id].delivered = received,
                                                   ![id].step = task.step + 1]
               /\ UNCHANGED pending_tool_tasks
          ELSE /\ tool_tasks' = [tool_tasks EXCEPT ![id].delivered = received,
                                                   ![id].pc = "done"]
               /\ pending_tool_tasks' = pending_tool_tasks \ {id}
    /\ UNCHANGED <<is_active, barge_in, audio_output_queue, toolUseId, response_task,
                   close_task, close_sent, is_streaming, output_task, audio_data,
                   next_chunk, device_written, queued_at_barge_in, pending_at_barge_in>>
    /\ StreamOnly

\* a cancelled task whose entry stays in pending_tool_tasks
TaskCancelledKeepingTheEntry(id) ==
    /\ id \in DOMAIN tool_tasks
    /\ Unfinished(id)
    /\ tool_tasks[id].cancel_requested
    /\ tool_tasks' = [tool_tasks EXCEPT ![id].pc = "cancelled"]
    /\ UNCHANGED <<is_active, barge_in, audio_output_queue, toolUseId, response_task,
                   close_task, close_sent, is_streaming, output_task, audio_data,
                   next_chunk, device_written, queued_at_barge_in, pending_at_barge_in,
                   pending_tool_tasks>>
    /\ StreamOnly

\* the CancelledError of close() arrives at the task's suspension point; it is
\* no Exception, so no error result is sent; the done-callback removes the entry
TaskCancelled(id) ==
    /\ id \in DOMAIN tool_tasks
    /\ Unfinished(id)
    /\ tool_tasks[id].cancel_requested
    /\ tool_tasks' = [tool_tasks EXCEPT ![id].pc = "cancelled"]
    /\ pending_tool_tasks' = pending_tool_tasks \ {id}
    /\ UNCHANGED <<is_active, barge_in, audio_output_queue, toolUseId, response_task,
                   close_task, close_sent, is_streaming, output_task, audio_data,
                   next_chunk, device_written, queued_at_barge_in, pending_at_barge_in>>
    /\ StreamOnly

\* play_output_audio at the top of its loop: flush on barge_in, else wait for a chunk
PlayerLoopTop ==
    /\ output_task = "top"
    /\ is_streaming
    /\ IF barge_in
       THEN /\ audio_output_queue' = <<>>
            /\ barge_in' = FALSE
            /\ UNCHANGED output_task
       ELSE /\ output_task' = "waiting"
            /\ UNCHANGED <<audio_output_queue, barge_in>>
    /\ UNCHANGED <<is_active, toolUseId, pending_tool_tasks, tool_tasks, response_task,
                   close_task, close_sent, is_streaming, audio_data, next_chunk,
                   device_written, queued_at_barge_in, pending_at_barge_in>>
    /\ StreamOnly

\* wait_for(audio_output_queue.get(), 0.1) returns a chunk
PlayerGets ==
    /\ output_task = "waiting"
    /\ audio_output_queue # <<>>
    /\ audio_data' = Head(audio_output_queue)
    /\ audio_output_queue' = Tail(audio_output_queue)
    /\ output_task' = "writing"
    /\ UNCHANGED <<is_active, barge_in, toolUseId, pending_tool_tasks, tool_tasks,
                   response_task, close_task, close_sent, is_streaming, next_chunk,
                   device_written, queued_at_barge_in, pending_at_barge_in>>
    /\ StreamOnly

\* wait_for(audio_output_queue.get(), 0.1) times out
PlayerTimesOut ==
    /\ output_task = "waiting"
    /\ audio_output_queue = <<>>
    /\ output_task' = "top"
    /\ UNCHANGED <<is_active, barge_in, audio_output_queue, toolUseId,
                   pending_tool_tasks, tool_tasks, response_task, close_task,
                   close_sent, is_streaming, audio_data, next_chunk, device_written,
                   queued_at_barge_in, pending_at_barge_in>>
    /\ StreamOnly

\* the chunk is written to output_stream
PlayerWrites ==
    /\ output_task = "writing"
    /\ device_written' = IF audio_data # NoChunk /\ is_streaming
                         THEN device_written \cup {audio_data}
                         ELSE device_written
    /\ audio_data' = NoChunk
    /\ output_task' = "top"
    /\ UNCHANGED <<is_active, barge_in, audio_output_queue, toolUseId,
                   pending_tool_tasks, tool_tasks, response_task, close_task,
                   close_sent, is_streaming, next_chunk, queued_at_barge_in,
                   pending_at_barge_in>>
    /\ StreamOnly

\* AudioStreamer.stop_streaming up to the call of stream_manager.close()
StopStreaming ==
    /\ is_streaming
    /\ close_task = "none"
    /\ is_streaming' = FALSE
    /\ output_task' = "cancelled"
    /\ close_task' = "stopping"
    /\ UNCHANGED <<is_active, barge_in, audio_output_queue, toolUseId,
                   pending_tool_tasks, tool_tasks, response_task, close_sent,
                   audio_data, next_chunk, device_written, queued_at_barge_in,
                   pending_at_barge_in>>
    /\ StreamOnly

\* close(): return if inactive; else cancel the pending tool tasks and the response
\* task, and begin sending the audio contentEnd
CloseBegins(sent_ok) ==
    /\ close_task = "stopping"
    /\ IF ~is_active
       THEN /\ close_task' = "done"
            /\ UNCHANGED <<tool_tasks, response_task, close_sent>>
       ELSE /\ tool_tasks' = [id \in DOMAIN tool_tasks |->
                                 IF id \in pending_tool_tasks
                                 THEN [tool_tasks[id] EXCEPT !.cancel_requested = TRUE]
                                 ELSE tool_tasks[id]]
            /\ response_task' = IF response_task = "receiving" THEN "cancelling"
                                ELSE response_task
            /\ close_sent' = send_raw_event(close_sent, "contentEnd", is_active, sent_ok)
            /\ close_task' = "prompt_end"
    /\ UNCHANGED <<is_active, barge_in, audio_output_queue, toolUseId,
                   pending_tool_tasks, is_streaming, output_task, audio_data,
                   next_chunk, device_written, queued_at_barge_in, pending_at_barge_in>>
    /\ StreamOnly

\* close(): send_prompt_end_event
CloseSendsPromptEnd(sent_ok) ==
    /\ close_task = "prompt_end"
    /\ close_sent' = send_raw_event(close_sent, "promptEnd", is_active, sent_ok)
    /\ close_task' = "session_end"
    /\ UNCHANGED <<is_active, barge_in, audio_output_queue, toolUseId,
                   pending_tool_tasks, tool_tasks, response_task, is_streaming,
                   output_task, audio_data, next_chunk, device_written,
                   queued_at_barge_in, pending_at_barge_in>>
    /\ StreamOnly

\* close(): send_session_end_event, which also clears is_active
CloseSendsSessionEnd(sent_ok) ==
    /\ close_task = "session_end"
    /\ close_sent' = send_raw_event(close_sent, "sessionEnd", is_active, sent_ok)
    /\ is_active' = FALSE
    /\ close_task' = "close_input"
    /\ UNCHANGED <<barge_in, audio_output_queue, toolUseId, pending_tool_tasks,
                   tool_tasks, response_task, is_streaming, output_task, audio_data,
                   next_chunk, device_written, queued_at_barge_in, pending_at_barge_in>>
    /\ StreamOnly

\* close(): input_stream.close()
CloseInputStream ==
    /\ close_task = "close_input"
    /\ close_task' = "done"
    /\ UNCHANGED <<is_active, barge_in, audio_output_queue, toolUseId,
                   pending_tool_tasks, tool_tasks, response_task, close_sent,
                   is_streaming, output_task, audio_data, next_chunk, device_written,
                   queued_at_barge_in, pending_at_barge_in>>
    /\ StreamOnly

\* the dispatch side of the stream handler: the pump, the tool tasks and close().
\* The player's steps are left out: they read and write only barge_in, the audio
\* queue and the device.
DispatchNext ==
    \/ InitializeStream
    \/ StartStreaming
    \/ \E text \in TextOutputs : PumpTextOutput(text)
    \/ \E tool_use_id \in ToolUseIds : PumpToolUse(tool_use_id)
    \/ PumpContentEndTool
    \/ PumpStreamEnds
    \/ PumpReceiveFails
    \/ PumpCancelled
    \/ \E id \in 1..MaxToolTasks :
          \/ TaskStarts(id)
          \/ \E outcome \in {"result", "fault"} : TaskToolReturns(id, outcome)
          \/ \E sent_ok \in BOOLEAN : TaskSends(id, sent_ok)
          \/ TaskCancelled(id)
    \/ StopStreaming
    \/ \E sent_ok \in BOOLEAN :
          \/ CloseBegins(sent_ok)
          \/ CloseSendsPromptEnd(sent_ok)
          \/ CloseSendsSessionEnd(sent_ok)
    \/ CloseInputStream

\* close() against the tasks it cancels, on a healthy connection: the inbound
\* stream neither ends nor fails, and every input_stream.send returns normally
CloseNext ==
    \/ InitializeStream
    \/ StartStreaming
    \/ \E text \in TextOutputs : PumpTextOutput(text)
    \/ \E tool_use_id \in ToolUseIds : PumpToolUse(tool_use_id)
    \/ PumpContentEndTool
    \/ PumpCancelled
    \/ \E id \in 1..MaxToolTasks :
          \/ TaskStarts(id)
          \/ \E outcome \in {"result", "fault"} : TaskToolReturns(id, outcome)
          \/ TaskSends(id, TRUE)
          \/ TaskCancelled(id)
    \/ StopStreaming
    \/ CloseBegins(TRUE)
    \/ CloseSendsPromptEnd(TRUE)
    \/ CloseSendsSessionEnd(TRUE)
    \/ CloseInputStream

\* the audio side of the stream handler: the pump's audio and text events and the
\* player, until stop_streaming() cancels the player
AudioNext ==
    \/ InitializeStream
    \/ StartStreaming
    \/ \E text \in TextOutputs : PumpTextOutput(text)
    \/ PumpAudioOutput
    \/ PumpStreamEnds
    \/ PlayerLoopTop
    \/ PlayerGets
    \/ PlayerTimesOut
    \/ PlayerWrites
    \/ StopStreaming


(***************************************************************************)
(* healthcare_agent.main: the session, the stream and the streamer are     *)
(* set up, then play_output_audio() and monitor_session_timeout() are      *)
(* gathered; the finally clause (reached on KeyboardInterrupt) stops the   *)
(* streamer and closes the stream.  Its last call, terminate_session,      *)
(* comes after close() has returned and is CleanupHealthSession.           *)
(***************************************************************************)
AgentNext ==
    \/ \E d \in HealthTickSteps : HealthTick(d)
    \/ StartHealthSession
    \/ InitializeStream
    \/ StartStreaming
    \/ \E sid \in HealthSessionIds : MonitorSessionTimeout(sid)
    \/ StopStreaming
    \/ \E sent_ok \in BOOLEAN :
          \/ CloseBegins(sent_ok)
          \/ CloseSendsPromptEnd(sent_ok)
          \/ CloseSendsSessionEnd(sent_ok)
    \/ CloseInputStream

(***************************************************************************)
(* Banking_Agent BedrockStreamManager.process_stream_events: the event     *)
(* pump that awaits process_tool_async in its own loop.                    *)
(***************************************************************************)
BankEventKinds == {"audio", "toolUse"}

PumpInit ==
    /\ bank_pump = "none"
    /\ bank_stream = <<>>
    /\ bank_events = 0
    /\ bank_output_queue = 0
    /\ bank_tasks = "none"
    /\ bank_results = 0

\* process_stream_events is started and waits for the first event
StartBankPump ==
    /\ bank_pump = "none"
    /\ bank_pump' = "receiving"
    /\ UNCHANGED <<bank_stream, bank_events, bank_output_queue, bank_tasks, bank_results>>
    /\ PumpOnly

\* the model sends one more event on the stream
ModelSendsEvent(kind) ==
    /\ bank_pump # "none"
    /\ bank_events < MaxBankEvents
    /\ bank_events' = bank_events + 1
    /\ bank_stream' = Append(bank_stream, kind)
    /\ UNCHANGED <<bank_pump, bank_output_queue, bank_tasks, bank_results>>
    /\ PumpOnly

\* "async for event in self.stream": audio is queued; for a toolUse the pump
\* awaits process_tool_async, which creates the task running _run_tool
BankPumpReceives ==
    /\ bank_pump = "receiving"
    /\ bank_stream # <<>>
    /\ bank_stream' = Tail(bank_stream)
    /\ IF Head(bank_stream) = "audio"
       THEN /\ bank_output_queue' = bank_output_queue + 1
            /\ UNCHANGED <<bank_pump, bank_tasks>>
       ELSE /\ bank_tasks' = "running"
            /\ bank_pump' = "awaiting_tool"
            /\ UNCHANGED bank_output_queue
    /\ UNCHANGED <<bank_events, bank_results>>
    /\ PumpOnly

\* the awaited task is finished: the pump sends the tool result and loops
BankPumpSendsResult ==
    /\ bank_pump = "awaiting_tool"
    /\ bank_tasks = "finished"
    /\ bank_results' = bank_results + 1
    /\ bank_tasks' = "none"
    /\ bank_pump' = "receiving"
    /\ UNCHANGED <<bank_stream, bank_events, bank_output_queue>>
    /\ PumpOnly

\* the task running _run_tool ends with an exception: a call in the handler's
\* try block raises (the store is unavailable), its except clause calls
\* audit_action, whose own store call raises again, and the exception leaves
\* execute, run_in_executor and _run_tool; nothing has been written
RunToolRaises(tool_name) ==
    /\ NormalizeToolName(tool_name) \in {TOOL_INTERNAL_TRANSFER, TOOL_STOP_PAYMENT}
    /\ bank_tasks = "running"
    /\ bank_tasks' = "raised"
    /\ UNCHANGED <<bank_pump, bank_stream, bank_events, bank_output_queue, bank_results>>
    /\ PumpOnly

\* "result = await process_tool_async(...)" re-raises the task's exception inside
\* process_stream_events, which has no try: the pump ends with that exception
BankPumpToolRaises ==
    /\ bank_pump = "awaiting_tool"
    /\ bank_tasks = "raised"
    /\ bank_pump' = "failed"
    /\ UNCHANGED <<bank_stream, bank_events, bank_output_queue, bank_tasks, bank_results>>
    /\ PumpOnly

BankPumpNext ==
    \/ StartBankPump
    \/ \E kind \in BankEventKinds : ModelSendsEvent(kind)
    \/ BankPumpReceives
    \/ RunTool
    \/ \E tool_name \in RawToolNames : RunToolRaises(tool_name)
    \/ BankPumpSendsResult
    \/ BankPumpToolRaises

(***************************************************************************)
(* A handler in its executor thread while the task that awaits it is       *)
(* cancelled.  _run_tool awaits loop.run_in_executor(None, execute, ...):  *)
(* execute() runs in a worker thread, which a cancellation of the awaiting *)
(* task does not reach.  InternalTransferTool.execute is taken apart at    *)
(* its audit_action; the thread keeps the clock reading of its call.       *)
(***************************************************************************)
NoTime == -1

\* a cancellation that also ends the worker thread
CancelAwaitedToolEndingTheThread ==
    /\ bank_pump = "awaiting_tool"
    /\ bank_tasks = "running"
    /\ bank_pump' = "cancelled"
    /\ bank_tasks' = "cancelled"
    /\ handler_thread' = NoTime
    /\ UNCHANGED <<bank_stream, bank_events, bank_output_queue, bank_results>>
    /\ UNCHANGED <<bankVars, healthVars, streamVars, itemVars, raceVars, touch_pc, touch_now,
                   verify_pending>>

\* the task that awaits the tool is cancelled (the main task's gather on
\* shutdown): process_stream_events and the task of _run_tool end with
\* CancelledError; the worker thread is not touched
CancelAwaitedTool ==
    /\ bank_pump = "awaiting_tool"
    /\ bank_tasks = "running"
    /\ bank_pump' = "cancelled"
    /\ bank_tasks' = "cancelled"
    /\ UNCHANGED <<bank_stream, bank_events, bank_output_queue, bank_results>>
    /\ PumpOnly

\* the worker thread runs InternalTransferTool.execute up to its account updates;
\* a call that ends before them (a refusal, an error) is complete in this step
HandlerThreadWrites(tool_name, from, to, amount, otp) ==
    /\ NormalizeToolName(tool_name) = TOOL_INTERNAL_TRANSFER
    /\ bank_tasks = "running"
    /\ handler_thread = NoTime
    /\ LET r == InternalTransferTool_execute(auth_sessions_table, audit_logs_table,
                     accounts_table, transfers_table, current_session_id, now,
                     from, to, amount, otp)
       IN /\ Len(r.a) <= MaxAudit
          /\ auth_sessions_table' = r.s
          /\ accounts_table' = r.acc
          /\ transfers_table' = r.tr
          /\ IF r.kind = "success"
             THEN /\ audit_logs_table' = SubSeq(r.a, 1, Len(r.a) - 1)
                  /\ handler_thread' = now
                  /\ UNCHANGED bank_tasks
             ELSE /\ audit_logs_table' = r.a
                  /\ bank_tasks' = "finished"
                  /\ UNCHANGED handler_thread
    /\ BankWithinBounds
    /\ UNCHANGED <<now, current_session_id>>
    /\ UNCHANGED <<bank_pump, bank_stream, bank_events, bank_output_queue, bank_results>>
    /\ UNCHANGED <<healthVars, streamVars, itemVars, raceVars, touch_pc, touch_now, verify_pending>>

\* the worker thread goes on: audit_action('INTERNAL_TRANSFER', transfer_id,
\* SUCCESS) and the return; the result reaches the task if it still waits
HandlerThreadAudits ==
    /\ handler_thread # NoTime
    /\ audit_logs_table' =
           audit_action(auth_sessions_table, audit_logs_table, current_session_id,
                        handler_thread, "INTERNAL_TRANSFER", "XFER", AUDIT_RESULT_SUCCESS)
    /\ handler_thread' = NoTime
    /\ bank_tasks' = IF bank_tasks = "running" THEN "finished" ELSE bank_tasks
    /\ UNCHANGED <<now, auth_sessions_table, current_session_id, accounts_table,
                   transfers_table>>
    /\ UNCHANGED <<bank_pump, bank_stream, bank_events, bank_output_queue, bank_results>>
    /\ UNCHANGED <<healthVars, streamVars, itemVars, raceVars, touch_pc, touch_now, verify_pending>>

CancelNext ==
    \/ \E d \in TickSteps : BankTick(d)
    \/ StartBankPump
    \/ ModelSendsEvent("toolUse")
    \/ BankPumpReceives
    \/ BankPumpSendsResult
    \/ CancelAwaitedTool
    \/ \E tool_name \in RawToolNames :
          \/ \E phone \in Phones : RunAuthenticateTool(tool_name, phone)
          \/ \E otpCode \in OtpCodes : RunVerifyOtpTool(tool_name, otpCode)
          \/ \E x \in TransferArgs, otp \in OtpCodes :
                 HandlerThreadWrites(tool_name, x[1], x[2], x[3], otp)
    \/ HandlerThreadAudits

(***************************************************************************)
(* AuditLogger.log_event with every attribute of the item it puts.  The    *)
(* uuid of audit_log_id is fresh: the count of items put so far plus one.  *)
(***************************************************************************)
\* arguments of log_event:
\* <<event_type, user_id, session_id, action, resource_id, phi_accessed, success>>
LogEventArgs ==
    {<<"AUTH", NoValue, 1, "VERIFY_NAME_DOB", NoValue, FALSE, FALSE>>,
     <<"AUTH", "PAT-1", 1, "VERIFY_PHONE", NoValue, FALSE, TRUE>>,
     <<"PHI_ACCESS", "PAT-1", 1, "READ", "APT-1", TRUE, TRUE>>,
     <<"CONSENT", "PAT-1", 1, "CAPTURE_CONSENT", NoValue, FALSE, TRUE>>}

\* f"{audit_log_id}{timestamp}{event_type}{action}{user_id}{session_id}"
hash_data(audit_log_id, timestamp, event_type, action, user_id, session_id) ==
    <<audit_log_id, timestamp, event_type, action,
      IF user_id = NoValue THEN "None" ELSE user_id, session_id>>

\* hashlib.sha256(hash_data.encode()).hexdigest(): injective on what is hashed
tamper_hash(data) == <<"sha256", data>>

\* the audit_entry log_event builds
audit_entry(audit_log_id, timestamp, event_type, user_id, session_id, action, resource_id, phi_accessed, success) ==
    [auditLogId |-> audit_log_id,
     timestamp |-> timestamp,
     eventType |-> event_type,
     userId |-> IF user_id = NoValue THEN "ANONYMOUS" ELSE user_id,
     sessionId |-> session_id,
     action |-> action,
     resourceId |-> resource_id,
     phiAccessed |-> phi_accessed,
     success |-> success,
     tamperHash |-> tamper_hash(hash_data(audit_log_id, timestamp, event_type,
                                          action, user_id, session_id))]

ItemInit == audit_items = <<>>

\* AuditLogger.log_event(...): audit_table.put_item(Item=audit_entry)
LogEvent(x) ==
    /\ Len(audit_items) < MaxItems
    /\ audit_items' =
           Append(audit_items,
                  audit_entry(Len(audit_items) + 1, utcnow, x[1], x[2], x[3], x[4],
                              x[5], x[6], x[7]))
    /\ UNCHANGED <<bankVars, healthVars, streamVars, pumpVars, callVars, raceVars>>

ItemNext ==
    \/ \E d \in HealthTickSteps : HealthTick(d)
    \/ \E x \in LogEventArgs : LogEvent(x)

(***************************************************************************)
(* Calls taken apart at their store operations, for what another caller or *)
(* reader of the same table can see in between.                            *)
(*  - SessionManager.update_activity: get_session and utcnow(), then the   *)
(*    update_item that writes lastActivity, expiresAt and warningAt.       *)
(*  - verifyOtpTool: verify_otp up to its update_item, then its            *)
(*    _audit_log.                                                          *)
(***************************************************************************)
TouchCallers == {"c1", "c2"}

\* the session the concurrent callers touch: the first one created
TouchedSession == 1

CallInit ==
    /\ touch_pc = [p \in TouchCallers |-> "idle"]
    /\ touch_now = [p \in TouchCallers |-> NoTime]
    /\ verify_pending = NoSession
    /\ handler_thread = NoTime

\* update_activity: get_session, return False if absent, else now = utcnow()
TouchBegins(p) ==
    /\ touch_pc[p] = "idle"
    /\ TouchedSession \in DOMAIN sessions_table
    /\ LET g == SessionManager_get_session(sessions_table, audit_table,
                                           TouchedSession, utcnow)
       IN /\ sessions_table' = g.s
          /\ audit_table' = g.a
          /\ touch_pc' = [touch_pc EXCEPT ![p] = IF g.found THEN "computed" ELSE "done"]
          /\ touch_now' = [touch_now EXCEPT ![p] = IF g.found THEN utcnow ELSE NoTime]
    /\ HealthWithinBounds
    /\ UNCHANGED <<utcnow, verify_pending, handler_thread>>
    /\ UNCHANGED <<bankVars, streamVars, pumpVars, itemVars, raceVars>>

\* update_activity: the unconditional update_item with the values computed
TouchWrites(p) ==
    /\ touch_pc[p] = "computed"
    /\ sessions_table' =
           [sessions_table EXCEPT
               ![TouchedSession].lastActivity = touch_now[p],
               ![TouchedSession].expiresAt = touch_now[p] + HC_SESSION_TIMEOUT_MINUTES,
               ![TouchedSession].warningAt = touch_now[p] + HC_SESSION_WARNING_MINUTES]
    /\ touch_pc' = [touch_pc EXCEPT ![p] = "done"]
    /\ UNCHANGED <<utcnow, audit_table, touch_now, verify_pending, handler_thread>>
    /\ UNCHANGED <<bankVars, streamVars, pumpVars, itemVars, raceVars>>

TouchNext ==
    \/ \E d \in HealthTickSteps : HealthTick(d)
    \/ StartHealthSession
    \/ \E p \in TouchCallers : TouchBegins(p)
    \/ \E p \in TouchCallers : TouchWrites(p)

\* verifyOtpTool up to and including verify_otp's update_item; every refusal
\* (and its failure audit) is complete in this step
VerifyOtpToolBegins(tool_name, otpCode) ==
    /\ NormalizeToolName(tool_name) = TOOL_VERIFY_OTP
    /\ verify_pending = NoSession
    /\ Len(audit_logs_table) < MaxAudit
    /\ LET r == VerifyOtpTool_execute(auth_sessions_table, audit_logs_table,
                                      current_session_id, now, otpCode)
       IN /\ auth_sessions_table' = r.s
          /\ IF r.kind = "otp_verified"
             THEN /\ verify_pending' = current_session_id
                  /\ UNCHANGED audit_logs_table
             ELSE /\ audit_logs_table' = r.a
                  /\ UNCHANGED verify_pending
    /\ UNCHANGED <<now, current_session_id, accounts_table, transfers_table>>
    /\ UNCHANGED <<touch_pc, touch_now, handler_thread>>
    /\ UNCHANGED <<healthVars, streamVars, pumpVars, itemVars, raceVars>>

\* verify_otp after its update_item: _audit_log('OTP_VERIFIED'), then the return
VerifyOtpToolAudits ==
    /\ verify_pending # NoSession
    /\ audit_logs_table' =
           audit_log(audit_logs_table, verify_pending,
                     auth_sessions_table[verify_pending].customerId, "OTP_VERIFIED",
                     NoValue, AUDIT_RESULT_SUCCESS, AUTH_LEVEL_2)
    /\ verify_pending' = NoSession
    /\ UNCHANGED <<now, auth_sessions_table, current_session_id, accounts_table,
                   transfers_table>>
    /\ UNCHANGED <<touch_pc, touch_now, handler_thread>>
    /\ UNCHANGED <<healthVars, streamVars, pumpVars, itemVars, raceVars>>

AuditOrderNext ==
    \/ \E d \in TickSteps : BankTick(d)
    \/ \E tool_name \in RawToolNames :
          \/ \E phone \in Phones \cup {NoValue} : RunAuthenticateTool(tool_name, phone)
          \/ \E x \in TransferArgs, otp \in OtpCodes :
                 RunInternalTransferTool(tool_name, x[1], x[2], x[3], otp)
          \/ \E otpCode \in OtpCodes \cup {NoValue} : VerifyOtpToolBegins(tool_name, otpCode)
    \/ VerifyOtpToolAudits

(***************************************************************************)
(* One specification per subsystem; the variables of the other subsystems  *)
(* keep their initial value.                                               *)
(***************************************************************************)
(***************************************************************************)
(* CallCenterToolProcessor._run_tool and the tool catalog sent to the      *)
(* model at session start.  A tool name is the sequence of its characters. *)
(***************************************************************************)
MaxRequests == 3

UpperCaseLetters ==
    <<"A", "B", "C", "D", "E", "F", "G", "H", "I", "J", "K", "L",
      "M", "N", "O", "P", "Q", "R", "S", "T", "U", "V", "W", "X", "Y", "Z">>
LowerCaseLetters ==
    <<"a", "b", "c", "d", "e", "f", "g", "h", "i", "j", "k", "l",
      "m", "n", "o", "p", "q", "r", "s", "t", "u", "v", "w", "x", "y", "z">>

\* str.lower() on one character
LowerChar(ch) ==
    IF \E i \in 1..Len(UpperCaseLetters) : UpperCaseLetters[i] = ch
    THEN LowerCaseLetters[CHOOSE i \in 1..Len(UpperCaseLetters) : UpperCaseLetters[i] = ch]
    ELSE ch

IsNoSpace(ch) == ch # " "

\* tool_name.lower().replace(" ", "")
normalize(tool_name) ==
    SelectSeq([i \in 1..Len(tool_name) |-> LowerChar(tool_name[i])], IsNoSpace)

\* get_tool_schemas(): the "name" of every toolSpec
ToolCatalog ==
    {<<"v", "e", "r", "i", "f", "y", "M", "e", "m", "b", "e", "r", "T", "o", "o", "l">>,
     <<"c", "h", "e", "c", "k", "S", "t", "o", "r", "e", "H", "o", "u", "r", "s", "T", "o", "o", "l">>,
     <<"c", "h", "e", "c", "k", "I", "n", "v", "e", "n", "t", "o", "r", "y", "T", "o", "o", "l">>,
     <<"c", "h", "e", "c", "k", "C", "u", "r", "b", "s", "i", "d", "e", "O", "r", "d", "e", "r", "T", "o", "o", "l">>,
     <<"s", "c", "h", "e", "d", "u", "l", "e", "A", "p", "p", "o", "i", "n", "t", "m", "e", "n", "t", "T", "o", "o", "l">>,
     <<"c", "h", "e", "c", "k", "S", "p", "e", "c", "i", "a", "l", "t", "y", "O", "r", "d", "e", "r", "T", "o", "o", "l">>,
     <<"c", "r", "e", "a", "t", "e", "C", "a", "k", "e", "O", "r", "d", "e", "r", "T", "o", "o", "l">>,
     <<"c", "h", "e", "c", "k", "A", "p", "p", "o", "i", "n", "t", "m", "e", "n", "t", "T", "o", "o", "l">>}

\* tool_handlers of _run_tool: <<key, handler>>, in the order of the dict
tool_handlers ==
    <<<<<<"v", "e", "r", "i", "f", "y", "m", "e", "m", "b", "e", "r", "t", "o", "o", "l">>,
       "verify_member_tool">>,
     <<<<"c", "h", "e", "c", "k", "s", "t", "o", "r", "e", "h", "o", "u", "r", "s", " ", "t", "o", "o", "l">>,
       "check_store_hours_tool">>,
     <<<<"c", "h", "e", "c", "k", "s", "t", "o", "r", "e", "h", "o", "o", "r", "s", "t", "o", "o", "l">>,
       "check_store_hours_tool">>,
     <<<<"c", "h", "e", "c", "k", "i", "n", "v", "e", "n", "t", "o", "r", "y", "t", "o", "o", "l">>,
       "check_inventory_tool">>,
     <<<<"c", "h", "e", "c", "k", "c", "u", "r", "b", "s", "i", "d", "e", "o", "r", "d", "e", "r", "t", "o", "o", "l">>,
       "check_curbside_tool">>,
     <<<<"s", "c", "h", "e", "d", "u", "l", "e", "a", "p", "p", "o", "i", "n", "t", "m", "e", "n", "t", "t", "o", "o", "l">>,
       "schedule_appointment_tool">>,
     <<<<"c", "h", "e", "c", "k", "s", "p", "e", "c", "i", "a", "l", "t", "y", "o", "r", "d", "e", "r", "t", "o", "o", "l">>,
       "check_specialty_tool">>,
     <<<<"c", "r", "e", "a", "t", "e", "c", "a", "k", "e", "o", "r", "d", "e", "r", "t", "o", "o", "l">>,
       "create_cake_tool">>,
     <<<<"c", "h", "e", "c", "k", "a", "p", "p", "o", "i", "n", "t", "m", "e", "n", "t", "t", "o", "o", "l">>,
       "check_appointment_tool">>>>

Unsupported == "Unsupported tool"

\* _run_tool(tool_name, ...): the handler tool_handlers.get(tool) finds and whose
\* execute is run, or the unsupported-tool error
run_tool(tool_name) ==
    LET tool == normalize(tool_name)
        hits == {i \in 1..Len(tool_handlers) : tool_handlers[i][1] = tool}
    IN IF hits # {} THEN tool_handlers[CHOOSE i \in hits : TRUE][2] ELSE Unsupported

CatalogInit == retail_log = <<>>

\* the model uses a tool of the catalog: _run_tool is called with its name
RetailRunTool(tool_name) ==
    /\ Len(retail_log) < MaxRequests
    /\ retail_log' = Append(retail_log, [name |-> tool_name, ran |-> run_tool(tool_name)])
    /\ UNCHANGED <<handler_sid, holdVars>>
    /\ UNCHANGED <<bankVars, healthVars, streamVars, pumpVars, callVars, itemVars>>

CatalogNext ==
    \E tool_name \in ToolCatalog : RetailRunTool(tool_name)

(***************************************************************************)
(* HoldSlotTool.execute called by several sessions (each its own agent     *)
(* process) on one availability table.  The handler reads the slot with    *)
(* get_item and writes it with a later update_item; it is taken apart      *)
(* between the two store calls.                                            *)
(***************************************************************************)
MaxHoldSessions == 2
SLOT_AVAILABLE == "available"
SLOT_HELD == "held"
SLOT_HOLD_MINUTES == 10

HoldSessions == 1..MaxHoldSessions
SlotIds == {"SLOT-1", "SLOT-2"}
NoSlot == "None"

HoldInit ==
    /\ availability_table = [x \in SlotIds |->
           [status |-> SLOT_AVAILABLE, heldBy |-> NoSession, holdExpiresAt |-> NoTime]]
    /\ hold_pc = [c \in HoldSessions |-> NoSlot]
    /\ hold_results = {}

\* execute up to the status test: get_item, "Slot not found", "no longer available"
HoldSlotReads(session_id, slot_id) ==
    /\ hold_pc[session_id] = NoSlot
    /\ hold_pc' = [hold_pc EXCEPT ![session_id] =
                      IF slot_id \in DOMAIN availability_table
                         /\ availability_table[slot_id].status = SLOT_AVAILABLE
                      THEN slot_id ELSE NoSlot]
    /\ UNCHANGED <<availability_table, hold_results, handler_sid, retail_log>>
    /\ UNCHANGED <<bankVars, healthVars, streamVars, pumpVars, callVars, itemVars>>

\* execute from update_item on: the slot is written held, the hold is logged,
\* held = True is returned
HoldSlotWrites(session_id) ==
    /\ hold_pc[session_id] # NoSlot
    /\ Len(audit_table) < MaxHealthAudit
    /\ availability_table' =
           [availability_table EXCEPT ![hold_pc[session_id]] =
               [status |-> SLOT_HELD, heldBy |-> session_id,
                holdExpiresAt |-> utcnow + SLOT_HOLD_MINUTES]]
    /\ audit_table' = log_event(audit_table, "APPOINTMENT", NoValue, session_id,
                                "HOLD_SLOT", TRUE)
    /\ hold_results' = hold_results \cup {<<session_id, hold_pc[session_id]>>}
    /\ hold_pc' = [hold_pc EXCEPT ![session_id] = NoSlot]
    /\ UNCHANGED <<utcnow, sessions_table, handler_sid, retail_log>>
    /\ UNCHANGED <<bankVars, streamVars, pumpVars, callVars, itemVars>>

HoldNext ==
    \/ \E d \in HealthTickSteps : HealthTick(d)
    \/ \E session_id \in HoldSessions, slot_id \in SlotIds \cup {"SLOT-0"} :
           HoldSlotReads(session_id, slot_id)
    \/ \E session_id \in HoldSessions : HoldSlotWrites(session_id)

(***************************************************************************)
(* Two invocations in flight on one tool processor: process_tool_async is  *)
(* called again while the handler of an earlier call is still in its       *)
(* executor thread.  The tool instances are shared; a handler reads its    *)
(* current_session_id attribute at every use, and a successful             *)
(* authenticate sets that attribute on every tool.  The attribute of each  *)
(* tool therefore always equals the processor's current_session_id.        *)
(* InternalTransferTool.execute is taken apart after its check_auth_level. *)
(***************************************************************************)
MaxRaceAudit == 5

RaceInit == handler_sid = NoSession /\ HoldInit /\ CatalogInit

RaceWithinBounds ==
    /\ Len(audit_logs_table') <= MaxRaceAudit
    /\ Len(transfers_table') <= MaxTransfers

\* InternalTransferTool.execute from get_customer_id() on; cur is the tool's
\* current_session_id when these lines run
InternalTransferTool_after_check(s, a, acc, tr, cur, t, from, to, amount) ==
    LET same == [s |-> s, a |-> a, acc |-> acc, tr |-> tr, kind |-> "none"]
    IN IF cur = NoSession
       THEN [same EXCEPT !.kind = "no_active_session"]
       ELSE IF ~get_session(s, cur, t)
       THEN [same EXCEPT !.kind = "session_not_found"]
       ELSE IF from = NoValue \/ to = NoValue \/ amount = 0
       THEN [same EXCEPT !.kind = "missing_arguments"]
       ELSE IF from \notin DOMAIN acc \/ to \notin DOMAIN acc
       THEN [same EXCEPT !.kind = "accounts_not_found"]
       ELSE IF AccountOwner(from) # s[cur].customerId
               \/ AccountOwner(to) # s[cur].customerId
       THEN [same EXCEPT !.kind = "accounts_not_yours"]
       ELSE IF amount < 0
       THEN [same EXCEPT !.a = audit_action(s, a, cur, t, "INTERNAL_TRANSFER",
                                            NoValue, AUDIT_RESULT_FAILURE),
                         !.kind = "exception"]
       ELSE IF acc[from].availableBalance < amount
       THEN [same EXCEPT !.kind = "insufficient_funds"]
       ELSE [s |-> s,
             a |-> audit_action(s, a, cur, t, "INTERNAL_TRANSFER", "XFER",
                                AUDIT_RESULT_SUCCESS),
             acc |-> [acc EXCEPT
                        ![from] = [balance |-> acc[from].balance - amount,
                                   availableBalance |-> acc[from].balance - amount],
                        ![to] = [balance |-> acc[to].balance + amount,
                                 availableBalance |-> acc[to].balance + amount]],
             tr |-> Append(tr, TransferItem(s[cur].customerId, from, to, amount)),
             kind |-> "success"]

\* _run_tool for internalTransferTool: set_session_id(current_session_id), then the
\* worker thread starts execute and makes its check_auth_level(AUTH_LEVEL_2);
\* a refused call returns here
TransferChecks(tool_name, otp) ==
    /\ NormalizeToolName(tool_name) = TOOL_INTERNAL_TRANSFER
    /\ bank_pump = "none"
    /\ handler_sid = NoSession
    /\ LET g == base_check_auth_level(auth_sessions_table, audit_logs_table,
                                      current_session_id, now, AUTH_LEVEL_2, otp)
       IN /\ auth_sessions_table' = g.s
          /\ audit_logs_table' = g.a
          /\ handler_sid' = IF g.authorized THEN current_session_id ELSE NoSession
    /\ UNCHANGED <<now, current_session_id, accounts_table, transfers_table>>
    /\ RaceWithinBounds
    /\ UNCHANGED <<healthVars, streamVars, pumpVars, callVars, itemVars, holdVars, retail_log>>

\* the worker thread goes on: get_customer_id(), the account checks, the
\* writes and audit_action, all with the tool's current_session_id of the moment
TransferCompletes(from, to, amount) ==
    /\ handler_sid # NoSession
    /\ LET r == InternalTransferTool_after_check(auth_sessions_table, audit_logs_table,
                    accounts_table, transfers_table, current_session_id, now,
                    from, to, amount)
       IN /\ auth_sessions_table' = r.s
          /\ audit_logs_table' = r.a
          /\ accounts_table' = r.acc
          /\ transfers_table' = r.tr
    /\ handler_sid' = NoSession
    /\ UNCHANGED <<now, current_session_id>>
    /\ RaceWithinBounds
    /\ UNCHANGED <<healthVars, streamVars, pumpVars, callVars, itemVars, holdVars, retail_log>>

RaceNext ==
    \/ \E d \in TickSteps : BankTick(d)
    \/ \E tool_name \in RawToolNames, phone \in Phones :
           RunAuthenticateTool(tool_name, phone)
    \/ \E tool_name \in RawToolNames, otpCode \in OtpCodes :
           RunVerifyOtpTool(tool_name, otpCode)
    \/ \E tool_name \in RawToolNames, otp \in OtpCodes : TransferChecks(tool_name, otp)
    \/ \E x \in TransferArgs : TransferCompletes(x[1], x[2], x[3])

(***************************************************************************)
(* The healthcare tool processor driven by the model's tool requests.      *)
(***************************************************************************)
\* process_tool_use(tool_name, tool_input) on the stores
ProcessToolUse(tool_name, tool_input) ==
    /\ tool_input.sessionId \in DOMAIN sessions_table
    /\ LET r == process_tool_use(sessions_table, audit_table, tool_name, tool_input)
       IN /\ sessions_table' = r.s
          /\ audit_table' = r.a
    /\ UNCHANGED utcnow
    /\ HealthWithinBounds
    /\ HealthOnly

ToolUseNext ==
    \/ \E d \in HealthTickSteps : HealthTick(d)
    \/ StartHealthSession
    \/ \E tool_name \in HealthToolNames, tool_input \in HealthToolInputs :
           ProcessToolUse(tool_name, tool_input)
    \/ \E sid \in HealthSessionIds : MonitorSessionTimeout(sid)

\* monitor_session_timeout, one turn of its loop: get_session, and break once
\* it returns None, so the loop runs only while the session is unterminated
MonitorLoopTurn(sid) ==
    /\ sid \in DOMAIN sessions_table
    /\ sessions_table[sid].terminationReason = NoValue
    /\ MonitorSessionTimeout(sid)

\* healthcare_agent.main, the finally clause, run once when the process ends
ShutDown(sid) ==
    /\ sid \in DOMAIN sessions_table
    /\ sessions_table[sid].terminationReason # "USER_INITIATED"
    /\ CleanupHealthSession(sid)

\* a tool use of the model, handled while the process is still running
ToolUseWhileRunning(tool_name, tool_input) ==
    /\ tool_input.sessionId \in DOMAIN sessions_table
    /\ sessions_table[tool_input.sessionId].terminationReason # "USER_INITIATED"
    /\ ProcessToolUse(tool_name, tool_input)

\* healthcare_agent.main from create_session to the finally clause
TerminateNext ==
    \/ \E d \in HealthTickSteps : HealthTick(d)
    \/ StartHealthSession
    \/ \E tool_name \in HealthToolNames, tool_input \in HealthToolInputs :
           ToolUseWhileRunning(tool_name, tool_input)
    \/ \E sid \in HealthSessionIds :
          \/ MonitorLoopTurn(sid)
          \/ ShutDown(sid)

vars == <<bankVars, healthVars, streamVars, pumpVars, callVars, itemVars, raceVars>>

Init == BankInit /\ HealthInit /\ StreamInit /\ PumpInit /\ CallInit /\ ItemInit /\ RaceInit

SpecBank == Init /\ [][BankNext]_vars

SpecHealth == Init /\ [][HealthNext]_vars

SpecDispatch == Init /\ [][DispatchNext]_vars

\* the event loop runs every task that is ready: a tool task that can start,
\* whose handler can return, or that can send, does so
SpecDispatchFair ==
    /\ SpecDispatch
    /\ WF_vars(\E id \in 1..MaxToolTasks : TaskStarts(id))
    /\ WF_vars(\E id \in 1..MaxToolTasks : TaskToolReturns(id, "result"))
    /\ WF_vars(\E id \in 1..MaxToolTasks : TaskSends(id, TRUE))

SpecAudio == Init /\ [][AudioNext]_vars

SpecBankPump == Init /\ [][BankPumpNext]_vars

SpecTouch == Init /\ [][TouchNext]_vars

SpecAuditOrder == Init /\ [][AuditOrderNext]_vars

SpecItems == Init /\ [][ItemNext]_vars

SpecCancel == Init /\ [][CancelNext]_vars

SpecTerminate == Init /\ [][TerminateNext]_vars

SpecCatalog == Init /\ [][CatalogNext]_vars

SpecHold == Init /\ [][HoldNext]_vars

SpecRace == Init /\ [][RaceNext]_vars

SpecClose == Init /\ [][CloseNext]_vars

SpecToolUse == Init /\ [][ToolUseNext]_vars

\* once stop_streaming() has called close(), close() runs to its end; the
\* KeyboardInterrupt that leads to it is the user's and under no fairness
SpecAgent ==
    /\ Init /\ [][AgentNext]_vars
    /\ WF_vars(\E sent_ok \in BOOLEAN : CloseBegins(sent_ok))
    /\ WF_vars(\E sent_ok \in BOOLEAN : CloseSendsPromptEnd(sent_ok))
    /\ WF_vars(\E sent_ok \in BOOLEAN : CloseSendsSessionEnd(sent_ok))
    /\ WF_vars(CloseInputStream)

(***************************************************************************)
(* Properties of the banking authentication manager and its gated tools.   *)
(***************************************************************************)

\* the bound session exists, is unexpired and has trust level >= required_level
BoundSessionSuffices(required_level) ==
    /\ current_session_id \in DOMAIN auth_sessions_table
    /\ ~(now > auth_sessions_table[current_session_id].expiresAt)
    /\ LevelNum(auth_sessions_table[current_session_id].authLevel)
           >= LevelNum(required_level)

NotAuthorizedKinds ==
    {"no_active_session", "not_authorized_verify_otp", "not_authorized_step_up"}

\* the audit entries of one action
AuditsOf(action) ==
    {i \in 1..Len(audit_logs_table) : audit_logs_table[i].action = action}

\* C1: the trust level (authLevel) of every stored banking session never
\* decreases from one state to the next.
C1_AuthLevelNeverDecreases ==
    [][\A sid \in DOMAIN auth_sessions_table :
          LevelNum(auth_sessions_table'[sid].authLevel)
              >= LevelNum(auth_sessions_table[sid].authLevel)]_bankVars

\* C2: in every reachable state and for every argument list, a handler gated
\* at level R (internalTransferTool at Level2, stopPaymentTool at Level3)
\* changes the domain store (transfers, balances, the stop-payment record)
\* only if the bound session exists, is unexpired and has level >= R; in
\* every other case it returns a not-authorized result and the domain store
\* is as before.
C2_GatedWriteOnlyWhenAuthorized ==
    /\ \A x \in TransferArgs, otp \in OtpCodes :
          LET r == InternalTransferTool_execute(auth_sessions_table, audit_logs_table,
                       accounts_table, transfers_table, current_session_id, now,
                       x[1], x[2], x[3], otp)
          IN IF BoundSessionSuffices(AUTH_LEVEL_2)
             THEN r.kind \notin NotAuthorizedKinds
             ELSE /\ r.kind \in NotAuthorizedKinds
                  /\ r.tr = transfers_table
                  /\ r.acc = accounts_table
                  /\ \A i \in (Len(audit_logs_table) + 1)..Len(r.a) :
                         r.a[i].action # "INTERNAL_TRANSFER"
    /\ \A x \in StopPaymentArgs, otp \in OtpCodes :
          LET r == StopPaymentTool_execute(auth_sessions_table, audit_logs_table,
                       accounts_table, current_session_id, now, x[1], x[2], otp)
          IN IF BoundSessionSuffices(AUTH_LEVEL_3)
             THEN r.kind \notin NotAuthorizedKinds
             ELSE /\ r.kind \in NotAuthorizedKinds
                  /\ \A i \in (Len(audit_logs_table) + 1)..Len(r.a) :
                         r.a[i].action # "STOP_PAYMENT"
    /\ transfers_table # <<>> =>
          \E i \in AuditsOf("INTERNAL_TRANSFER") :
              /\ audit_logs_table[i].result = AUDIT_RESULT_SUCCESS
              /\ LevelNum(audit_logs_table[i].authLevel) >= LevelNum(AUTH_LEVEL_2)
    /\ \A i \in AuditsOf("STOP_PAYMENT") :
          audit_logs_table[i].authLevel = AUTH_LEVEL_3

\* a transfer was written, and afterwards the bound session no longer suffices
\* (it expired), so that the same handler now refuses
C2_Witness ==
    /\ transfers_table # <<>>
    /\ current_session_id # NoSession
    /\ ~BoundSessionSuffices(AUTH_LEVEL_2)

\* C5: while a Level1 session has a pending, unexpired step-up code, no step
\* (in particular no further authorize call requiring Level2) replaces the
\* stored code or its expiry, and no further OTP_SENT record is written.
C5_SecondAuthorizeKeepsTheCode ==
    [][\A sid \in DOMAIN auth_sessions_table :
          (/\ get_session(auth_sessions_table, sid, now)
           /\ auth_sessions_table[sid].authLevel = AUTH_LEVEL_1
           /\ auth_sessions_table[sid].otpSent
           /\ ~(now > auth_sessions_table[sid].otpExpiry))
          => /\ auth_sessions_table'[sid].otpCode = auth_sessions_table[sid].otpCode
             /\ auth_sessions_table'[sid].otpExpiry = auth_sessions_table[sid].otpExpiry
             /\ \A i \in (Len(audit_logs_table) + 1)..Len(audit_logs_table') :
                    ~(audit_logs_table'[i].action = "OTP_SENT"
                      /\ audit_logs_table'[i].sessionId = sid)]_bankVars

\* C6: a step in which verify_otp succeeds for a session (an OTP_VERIFIED
\* record is appended) leaves that session with no pending step-up, so the
\* same code cannot be verified again.
C6_PendingStepUpClearedOnSuccess ==
    [][\A i \in (Len(audit_logs_table) + 1)..Len(audit_logs_table') :
          audit_logs_table'[i].action = "OTP_VERIFIED"
          => ~auth_sessions_table'[audit_logs_table'[i].sessionId].otpSent]_bankVars

\* C7: a session is raised to Level3 only from Level2, and every session
\* above Level1 has had its OTP verified.
C7_LevelsAttainedInOrder ==
    [][\A sid \in DOMAIN auth_sessions_table :
          (/\ auth_sessions_table'[sid].authLevel = AUTH_LEVEL_3
           /\ auth_sessions_table[sid].authLevel # AUTH_LEVEL_3)
          => /\ auth_sessions_table[sid].authLevel = AUTH_LEVEL_2
             /\ auth_sessions_table[sid].mfaCompleted]_bankVars

(***************************************************************************)
(* Properties of the healthcare session manager.                           *)
(***************************************************************************)

\* C4: a session whose expiresAt has passed is treated as no session by every
\* operation: no step changes the verification or consent fields of a stored
\* healthcare session that is expired when the step is taken.
C4_ExpiredSessionIsNoSession ==
    [][\A sid \in DOMAIN sessions_table :
          utcnow > sessions_table[sid].expiresAt
          => /\ sessions_table'[sid].verified = sessions_table[sid].verified
             /\ sessions_table'[sid].verificationLevel
                    = sessions_table[sid].verificationLevel
             /\ sessions_table'[sid].userId = sessions_table[sid].userId
             /\ sessions_table'[sid].consentGiven = sessions_table[sid].consentGiven]_vars

(***************************************************************************)
(* Properties of the stream handler and the audio player.                  *)
(***************************************************************************)

\* the settlements of one dispatch: the tool results the model received for
\* it, plus its cancellation
Settlements(id) ==
    Cardinality({i \in 1..Len(tool_tasks[id].delivered) :
                    tool_tasks[id].delivered[i] = "toolResult"})
    + (IF tool_tasks[id].pc = "cancelled" THEN 1 ELSE 0)

\* C3: every dispatched tool invocation yields exactly one settlement: never
\* more than one, and exactly one once its task has finished.
C3_ExactlyOneSettlement ==
    \A id \in DOMAIN tool_tasks :
        /\ Settlements(id) <= 1
        /\ ~Unfinished(id) => Settlements(id) = 1

\* C8: no audio chunk that was in the output queue when a barge-in signal was
\* processed is ever written to the output device.
C8_BargeInDiscardsQueuedAudio ==
    device_written \cap queued_at_barge_in = {}

\* The barge-in step itself is a frame: the step that processes a barge-in
\* signal changes no tool task and no entry of pending_tool_tasks, and a
\* cancellation is only ever requested by close().
BargeInStepLeavesTasksAlone ==
    [][/\ (barge_in' /\ ~barge_in)
             => /\ tool_tasks' = tool_tasks
                /\ pending_tool_tasks' = pending_tool_tasks
       /\ pending_at_barge_in' # pending_at_barge_in
             => /\ tool_tasks' = tool_tasks
                /\ pending_tool_tasks' = pending_tool_tasks
       /\ \A id \in DOMAIN tool_tasks :
             (tool_tasks'[id].cancel_requested /\ ~tool_tasks[id].cancel_requested)
             => close_task = "stopping"]_vars

\* C9: every dispatch that was pending when a barge-in signal was processed
\* is never cancelled and, once its task has finished, has run to completion
\* with its whole result (contentStart, toolResult, contentEnd) received by
\* the model.
C9_PendingAtBargeInCompletes ==
    \A id \in pending_at_barge_in :
        /\ tool_tasks[id].pc # "cancelled"
        /\ ~Unfinished(id) => /\ tool_tasks[id].pc = "done"
                              /\ tool_tasks[id].delivered = ToolResultEvents

\* a dispatch that was pending when a barge-in was processed has run to
\* completion and the model has received its whole result
C9_Witness ==
    \E id \in pending_at_barge_in :
        /\ barge_in
        /\ tool_tasks[id].pc = "done"
        /\ tool_tasks[id].delivered = ToolResultEvents

(***************************************************************************)
(* Properties of the banking event pump.                                   *)
(***************************************************************************)

\* C10: the event pump never awaits a tool handler inline: while a handler is
\* running, the pump is at its receive point, able to take the next event.
C10_PumpNeverAwaitsHandlerInline ==
    bank_tasks = "running" => bank_pump = "receiving"

(***************************************************************************)
(* Properties of the banking session's expiry (touch).                     *)
(***************************************************************************)

\* C13: whenever check_auth_level returns Authorized for the bound session at
\* time now, at any required level, the session's expiresAt is now + timeout
\* immediately afterwards.
C13_AuthorizeTouchesExpiry ==
    \A required_level \in {AUTH_LEVEL_1, AUTH_LEVEL_2, AUTH_LEVEL_3} :
        LET c == check_auth_level(auth_sessions_table, current_session_id, now,
                                  required_level)
        IN c.authorized
           => c.s[current_session_id].expiresAt = now + SESSION_TIMEOUT_MINUTES

\* C14: in every reachable state every stored session has
\* expiresAt = lastActivity + timeout.
C14_ExpiryIsLastActivityPlusTimeout ==
    \A sid \in DOMAIN auth_sessions_table :
        auth_sessions_table[sid].expiresAt
            = auth_sessions_table[sid].lastActivity + SESSION_TIMEOUT_MINUTES

(***************************************************************************)
(* Properties of the step-up verification (verify_otp,                     *)
(* verify_knowledge_answer), stated on the bound session of every          *)
(* reachable state.                                                        *)
(***************************************************************************)

\* the audit log a is the log before followed by one FAILURE record of
\* session sid with the given action
FailureAppended(before, a, sid, action) ==
    /\ Len(a) = Len(before) + 1
    /\ SubSeq(a, 1, Len(before)) = before
    /\ a[Len(a)].sessionId = sid
    /\ a[Len(a)].action = action
    /\ a[Len(a)].result = AUDIT_RESULT_FAILURE

\* the knowledge proofs the model enumerates: <<question_type, answer>>
KnowledgeProofs ==
    {<<x[2], x[3]>> : x \in {y \in StepUpArgs : y[2] # NoValue /\ y[3] # NoValue}}

\* C16: a verify_otp with a code other than the pending, unexpired one, and a
\* verify_knowledge_answer with a non-matching answer, leave the session
\* record as it was (trust level unchanged, challenge still pending), append
\* one failure audit record, and a following attempt with the correct proof
\* succeeds.
C16_WrongProofKeepsTheChallenge ==
    LET s == auth_sessions_table
        a == audit_logs_table
        sid == current_session_id
    IN get_session(s, sid, now) =>
         /\ (s[sid].otpSent /\ ~(now > s[sid].otpExpiry)) =>
               \A wrong \in OtpCodes \ {s[sid].otpCode} :
                   LET r == verify_otp(s, a, sid, now, wrong)
                   IN /\ ~r.success
                      /\ r.s = s
                      /\ FailureAppended(a, r.a, sid, "OTP_VERIFY_FAILED")
                      /\ verify_otp(r.s, r.a, sid, now, s[sid].otpCode).success
         /\ \A x \in KnowledgeProofs :
               Sha256(x[2]) # StoredHash(s[sid].customerId, x[1]) =>
                   LET r == verify_knowledge_answer(s, a, sid, now, x[1], x[2])
                   IN /\ ~r.success
                      /\ r.s = s
                      /\ FailureAppended(a, r.a, sid, "KNOWLEDGE_AUTH_FAILED")
                      /\ verify_knowledge_answer(r.s, r.a, sid, now,
                                                 "mothersMaidenName", "Johnson").success

\* a wrong code was refused and audited, and the same session then verified
\* the correct code
C16_Witness ==
    \E i, j \in 1..Len(audit_logs_table) :
        /\ i < j
        /\ audit_logs_table[i].action = "OTP_VERIFY_FAILED"
        /\ audit_logs_table[j].action = "OTP_VERIFIED"
        /\ audit_logs_table[j].sessionId = audit_logs_table[i].sessionId

\* C17: on a session with no pending challenge (no code was issued; no
\* knowledge question is pending) a verification attempt fails closed
\* whatever the proof: the session's trust level and factor set are unchanged
\* and one failure audit record is appended.
C17_NoPendingChallengeFailsClosed ==
    LET s == auth_sessions_table
        a == audit_logs_table
        sid == current_session_id
    IN (get_session(s, sid, now) /\ ~s[sid].otpSent) =>
         /\ \A code \in OtpCodes :
               LET r == verify_otp(s, a, sid, now, code)
               IN /\ ~r.success
                  /\ r.s[sid].authLevel = s[sid].authLevel
                  /\ r.s[sid].authFactors = s[sid].authFactors
                  /\ Len(r.a) = Len(a) + 1
                  /\ r.a[Len(r.a)].result = AUDIT_RESULT_FAILURE
         /\ \A x \in KnowledgeProofs :
               LET r == verify_knowledge_answer(s, a, sid, now, x[1], x[2])
               IN /\ ~r.success
                  /\ r.s[sid].authLevel = s[sid].authLevel
                  /\ r.s[sid].authFactors = s[sid].authFactors

\* C18: verify_otp on a pending code whose otpExpiry has passed returns the
\* expired outcome for every supplied code, the stored code included; that
\* outcome differs from the one a wrong code gets inside the window; and the
\* session record is unchanged.
C18_ExpiredCodeIsExpiredNotInvalid ==
    LET s == auth_sessions_table
        a == audit_logs_table
        sid == current_session_id
    IN (get_session(s, sid, now) /\ s[sid].otpSent /\ now > s[sid].otpExpiry) =>
         \A code \in OtpCodes :
             LET r == verify_otp(s, a, sid, now, code)
                 in_window == [s EXCEPT ![sid].otpExpiry = now]
             IN /\ ~r.success
                /\ r.kind = "otp_expired"
                /\ \A wrong \in OtpCodes \ {s[sid].otpCode} :
                       r.kind # verify_otp(in_window, a, sid, now, wrong).kind
                /\ r.s = s

\* the bound session is alive and its pending code has expired
C18_Witness ==
    /\ get_session(auth_sessions_table, current_session_id, now)
    /\ auth_sessions_table[current_session_id].otpSent
    /\ now > auth_sessions_table[current_session_id].otpExpiry
    /\ auth_sessions_table[current_session_id].authLevel = AUTH_LEVEL_1

\* C19: no step removes a factor from the authFactors of a stored session.
C19_FactorsOnlyGrow ==
    [][\A sid \in DOMAIN auth_sessions_table :
          Range(auth_sessions_table[sid].authFactors)
              \subseteq Range(auth_sessions_table'[sid].authFactors)]_bankVars

(***************************************************************************)
(* Properties of the stream handler on a fatal fault of the inbound        *)
(* stream.                                                                 *)
(***************************************************************************)

\* C12: once receiving has failed fatally the pending tool dispatches are
\* cancelled: at the latest when close() has run to its end, every dispatch
\* that is still pending has had its cancellation requested.
C12_FatalFaultClosesTheSession ==
    (response_task = "failed" /\ close_task = "done") =>
        \A id \in pending_tool_tasks : tool_tasks[id].cancel_requested

(***************************************************************************)
(* Properties of the banking event pump under tool faults.                 *)
(***************************************************************************)

\* C11: no fault raised while a tool executes ever stops the event pump:
\* process_stream_events never ends with the exception of a tool task.
C11_ToolFaultNeverStopsThePump ==
    bank_pump # "failed"

(***************************************************************************)
(* Properties of concurrent touches and of the order of effect and audit.  *)
(***************************************************************************)

\* C15: once all concurrent update_activity calls on the session have
\* completed, the stored expiresAt is at least the expiry each of them
\* computed (the largest one wins).
C15_LargestExpiryWins ==
    (/\ TouchedSession \in DOMAIN sessions_table
     /\ \A p \in TouchCallers : touch_pc[p] = "done")
    => \A p \in TouchCallers :
           touch_now[p] # NoTime
           => sessions_table[TouchedSession].expiresAt
                  >= touch_now[p] + HC_SESSION_TIMEOUT_MINUTES

\* C20: in no reachable state does a stored session show the trust raised by
\* verify_otp (mfaCompleted, Level2) while the OTP_VERIFIED audit record of
\* that session is absent.
C20_AuditNoLaterThanEffect ==
    \A sid \in DOMAIN auth_sessions_table :
        auth_sessions_table[sid].mfaCompleted
        => \E i \in 1..Len(audit_logs_table) :
               /\ audit_logs_table[i].action = "OTP_VERIFIED"
               /\ audit_logs_table[i].sessionId = sid

(***************************************************************************)
(* Properties of the audit records' integrity token.                       *)
(***************************************************************************)

\* the token recomputed from the attributes an item stores
RecomputedToken(item) ==
    tamper_hash(<<item.auditLogId, item.timestamp, item.eventType, item.action,
                  item.userId, item.sessionId>>)

\* every item's stored token is the one recomputed from its stored attributes
TokensReproduced(items) ==
    \A i \in 1..Len(items) : RecomputedToken(items[i]) = items[i].tamperHash

RemoveAt(items, i) == SubSeq(items, 1, i - 1) \o SubSeq(items, i + 1, Len(items))

\* C21: the tokens chain the records: removing any one record of a stored
\* log of two or more leaves a log whose tokens are no longer all reproduced.
C21_RemovalBreaksTheChain ==
    Len(audit_items) >= 2
    => \A i \in 1..Len(audit_items) : ~TokensReproduced(RemoveAt(audit_items, i))

AuditItemFields == {"eventType", "userId", "action", "resourceId", "phiAccessed", "success"}
FieldValues(f) ==
    CASE f = "eventType" -> {"AUTH", "PHI_ACCESS", "CONSENT"}
      [] f = "userId" -> {"ANONYMOUS", "PAT-1", "PAT-2"}
      [] f = "action" -> {"VERIFY_NAME_DOB", "VERIFY_PHONE", "READ", "CAPTURE_CONSENT"}
      [] f = "resourceId" -> {NoValue, "APT-1"}
      [] OTHER -> BOOLEAN

\* C22: changing any attribute of any stored record to another value is
\* detectable: the token recomputed from the changed record differs from
\* the token stored with it.
C22_AnyMutationIsDetected ==
    \A i \in 1..Len(audit_items) :
        \A f \in AuditItemFields :
            \A v \in FieldValues(f) \ {audit_items[i][f]} :
                LET changed == [audit_items[i] EXCEPT ![f] = v]
                IN RecomputedToken(changed) # changed.tamperHash

\* C23: the audit logs are append-only: every step keeps each record already
\* stored, at its place and with its content, in the Banking log and in
\* the Healthcare log.
C23_AuditLogIsAppendOnly ==
    [][/\ Len(audit_logs_table') >= Len(audit_logs_table)
       /\ \A i \in 1..Len(audit_logs_table) : audit_logs_table'[i] = audit_logs_table[i]
       /\ Len(audit_table') >= Len(audit_table)
       /\ \A i \in 1..Len(audit_table) : audit_table'[i] = audit_table[i]]_vars

\* a log of three records: two appends happened after the first was stored
C23_Witness ==
    /\ Len(audit_logs_table) >= 3
    /\ audit_logs_table[1].action = "SESSION_CREATED"
    /\ audit_logs_table[3].action # "SESSION_CREATED"

(***************************************************************************)
(* Properties of the session a handler works on.                           *)
(***************************************************************************)

\* a session id the model can put in its arguments that is not the
\* conversation's: another conversation's, or none that exists
ForeignSessionId == MaxHealthSessions + 1

\* C24: whatever sessionId the tool arguments carry, verifyIdentityTool run in
\* the conversation bound to session c audits against c only and changes no
\* other session.
C24_HandlerWorksOnTheBoundSession ==
    \A c \in DOMAIN sessions_table :
        \A sid \in HealthSessionIds \cup {ForeignSessionId} :
            \A x \in IdentityArgs :
                LET r == VerifyIdentityTool_execute(sessions_table, audit_table, sid,
                                                    x[1], x[2], x[3])
                IN /\ \A i \in (Len(audit_table) + 1)..Len(r.a) : r.a[i].sessionId = c
                   /\ \A k \in DOMAIN sessions_table :
                          k # c => r.s[k] = sessions_table[k]

(***************************************************************************)
(* Properties of the delivery of tool results.                             *)
(***************************************************************************)

\* C25: every invocation the pump received (its task exists) leads to a state
\* in which the model has received the three events of its tool result.
C25_EveryInvocationIsAnswered ==
    \A id \in 1..MaxToolTasks :
        (id \in DOMAIN tool_tasks)
            ~> (id \in DOMAIN tool_tasks /\ tool_tasks[id].delivered = ToolResultEvents)

\* C26: every invocation is dispatched, once, under its own toolUseId: a
\* toolUse event replaces the registered invocation only after that one
\* was dispatched, and no two dispatches carry the same toolUseId.
C26_OneDispatchPerInvocation ==
    [][/\ (toolUseId' # toolUseId /\ toolUseId \in ToolUseIds)
          => \E id \in DOMAIN tool_tasks : tool_tasks[id].toolUseId = toolUseId
       /\ \A i, j \in DOMAIN tool_tasks' :
              tool_tasks'[i].toolUseId = tool_tasks'[j].toolUseId => i = j]_vars

\* C27: once the timeout monitor has observed the session as expired (its
\* get_session terminated it with reason TIMEOUT) while the stream is
\* open, the stream eventually reaches the closed state.
C27_TimeoutClosesTheStream ==
    \A sid \in HealthSessionIds :
        (/\ sid \in DOMAIN sessions_table
         /\ sessions_table[sid].terminationReason = "TIMEOUT"
         /\ is_active)
            ~> (close_task = "done")

(***************************************************************************)
(* Properties of cancellation and the handler's writes.                    *)
(***************************************************************************)

\* the successful INTERNAL_TRANSFER records of the audit log
TransferAudits ==
    {i \in 1..Len(audit_logs_table) :
        /\ audit_logs_table[i].action = "INTERNAL_TRANSFER"
        /\ audit_logs_table[i].result = AUDIT_RESULT_SUCCESS}

C29_TerminatedIsTerminal ==
    [][\A sid \in DOMAIN sessions_table :
          ~sessions_table[sid].active
          => /\ sessions_table'[sid].verified = sessions_table[sid].verified
             /\ sessions_table'[sid].verificationLevel
                    = sessions_table[sid].verificationLevel
             /\ sessions_table'[sid].userId = sessions_table[sid].userId
             /\ sessions_table'[sid].consentGiven = sessions_table[sid].consentGiven
             /\ sessions_table'[sid].expiresAt = sessions_table[sid].expiresAt]_vars

(***************************************************************************)
(* The step-up scenario from Level1 to Level2.                             *)
(***************************************************************************)

\* C30: for the bound session at Level1: a check for Level2 is refused with
\* the next step "verify the code" and stores a code that expires
\* OTP_EXPIRY_MINUTES later; verify_otp with that code at any time up to
\* its expiry (the session still valid) raises the session to Level2; a
\* later check for Level2 (the session still valid) is authorized, writes
\* no audit record and sends no code.
C30_StepUpScenario ==
    \A otp \in OtpCodes :
        (/\ current_session_id # NoSession
         /\ get_session(auth_sessions_table, current_session_id, now)
         /\ auth_sessions_table[current_session_id].authLevel = AUTH_LEVEL_1)
        => LET cur == current_session_id
               g == base_check_auth_level(auth_sessions_table, audit_logs_table, cur,
                                          now, AUTH_LEVEL_2, otp)
           IN /\ ~g.authorized
              /\ g.kind = "not_authorized_verify_otp"
              /\ g.s[cur].otpSent
              /\ g.s[cur].otpCode = otp
              /\ g.s[cur].otpExpiry = now + OTP_EXPIRY_MINUTES
              /\ \A t2 \in now..(now + OTP_EXPIRY_MINUTES) :
                     get_session(g.s, cur, t2)
                     => LET v == verify_otp(g.s, g.a, cur, t2, otp)
                        IN /\ v.kind = "otp_verified"
                           /\ v.s[cur].authLevel = AUTH_LEVEL_2
                           /\ \A t3 \in t2..MaxTime :
                                  get_session(v.s, cur, t3)
                                  => LET h == base_check_auth_level(v.s, v.a, cur, t3,
                                                                    AUTH_LEVEL_2, otp)
                                     IN /\ h.authorized
                                        /\ h.a = v.a
                                        /\ h.s[cur].otpSent = v.s[cur].otpSent
                                        /\ h.s[cur].otpCode = v.s[cur].otpCode

\* the scenario has run: a code was sent, it was verified, and a Level2
\* operation was then authorized and carried out
C30_Witness ==
    \E i, j, k \in 1..Len(audit_logs_table) :
        /\ i < j /\ j < k
        /\ audit_logs_table[i].action = "OTP_SENT"
        /\ audit_logs_table[j].action = "OTP_VERIFIED"
        /\ audit_logs_table[k].action = "INTERNAL_TRANSFER"
        /\ audit_logs_table[k].result = AUDIT_RESULT_SUCCESS
        /\ audit_logs_table[k].authLevel = AUTH_LEVEL_2

(***************************************************************************)
(* One audit record for every execution of a guarded handler.              *)
(***************************************************************************)

\* C31: with a valid session bound to the processor, every execution of
\* InternalTransferTool.execute, whatever its arguments and whichever path
\* it takes, leaves the audit log exactly one record longer.
C31_OneAuditRecordPerExecution ==
    (current_session_id # NoSession
     /\ get_session(auth_sessions_table, current_session_id, now))
    => \A x \in TransferArgs, otp \in OtpCodes :
           Len(InternalTransferTool_execute(auth_sessions_table, audit_logs_table,
                   accounts_table, transfers_table, current_session_id, now,
                   x[1], x[2], x[3], otp).a)
           = Len(audit_logs_table) + 1

(***************************************************************************)
(* Dispatching a name that no handler is registered under.                 *)
(***************************************************************************)
UnknownHealthToolNames == HealthToolNames \ HealthRegisteredTools

\* C32 as stated: in a state with a session, dispatching a name that matches
\* no registered handler returns the error result, executes no handler and
\* leaves the session store and the audit log as they were, whatever the input.
C32_UnknownNameReturnsError ==
    \A tool_name \in UnknownHealthToolNames, tool_input \in HealthToolInputs :
        tool_input.sessionId \in DOMAIN sessions_table
        => LET r == process_tool_use(sessions_table, audit_table, tool_name, tool_input)
           IN /\ r.kind = "error_unknown_tool"
              /\ ~r.executed
              /\ r.s = sessions_table
              /\ r.a = audit_table

\* C32 amended: dispatching a name that matches no registered handler
\* executes no handler and leaves the session store and the audit log as
\* they were; the result is the error result, except that an input holding
\* an escalation keyword is answered with the escalation result, which is
\* decided before the name is looked up.
C32_UnknownNameRunsNoHandler ==
    \A tool_name \in UnknownHealthToolNames, tool_input \in HealthToolInputs :
        tool_input.sessionId \in DOMAIN sessions_table
        => LET r == process_tool_use(sessions_table, audit_table, tool_name, tool_input)
           IN /\ r.kind = IF should_escalate(tool_input) THEN "escalate"
                          ELSE "error_unknown_tool"
              /\ ~r.executed
              /\ r.s = sessions_table
              /\ r.a = audit_table

\* a session on which a registered name would verify the caller and write
\* an audit record, while the unknown name with the same input is refused
C32_Witness ==
    \E tool_name \in UnknownHealthToolNames, tool_input \in HealthToolInputs :
        /\ tool_input.sessionId \in DOMAIN sessions_table
        /\ sessions_table[tool_input.sessionId].active
        /\ ~sessions_table[tool_input.sessionId].verified
        /\ ~should_escalate(tool_input)
        /\ process_tool_use(sessions_table, audit_table, TOOL_VERIFY_PHONE,
                            tool_input).kind = "verified"
        /\ process_tool_use(sessions_table, audit_table, tool_name,
                            tool_input).kind = "error_unknown_tool"

(***************************************************************************)
(* The three closing events of close().                                    *)
(***************************************************************************)

\* C33: when close(), called on an active stream, comes to close the input
\* stream, the model has been sent the audio contentEnd, the promptEnd and
\* the sessionEnd, each once and in that order, however the steps of the
\* cancelled response task fall between the sends.
C33_CloseSendsItsThreeEvents ==
    close_task = "close_input"
    => close_sent = <<"contentEnd", "promptEnd", "sessionEnd">>

(***************************************************************************)
(* The session of a handler in flight.                                     *)
(***************************************************************************)

\* C34: when a transfer handler whose check_auth_level has passed goes on to
\* its customer lookup, its writes and its audit record, the session it
\* uses is the session its check was made for, whatever other invocation
\* has completed on the processor in between.
C34_HandlerKeepsItsSession ==
    [][(handler_sid # NoSession /\ handler_sid' = NoSession)
       => current_session_id = handler_sid]_vars

(***************************************************************************)
(* pending_tool_tasks against the tasks in flight.                         *)
(***************************************************************************)

C36_AtMostOneHoldPerSlot ==
    \A p, q \in hold_results : p[2] = q[2] => p[1] = q[1]

(***************************************************************************)
(* Audio that arrives after an interruption signal.                        *)
(***************************************************************************)

\* C37: while the streamer is streaming, every audio chunk that the pump has
\* received and that was not in the output queue when an interruption signal
\* was processed is still in the queue, in the player's hands, or written
\* to the output device: the flush has not dropped it.
C37_FlushSparesLaterAudio ==
    is_streaming
    => \A c \in 1..next_chunk :
           c \notin queued_at_barge_in
           => \/ c \in Range(audio_output_queue)
              \/ c = audio_data
              \/ c \in device_written

(***************************************************************************)
(* The three events of one tool result.                                    *)
(***************************************************************************)

\* C38: what the model receives of one invocation's result is always a
\* prefix of contentStart, toolResult, contentEnd, and once the task has
\* finished or been cancelled it is the whole sequence or nothing.
C38_ResultSentWholeOrNotAtAll ==
    \A id \in DOMAIN tool_tasks :
        /\ tool_tasks[id].delivered
               = SubSeq(ToolResultEvents, 1, Len(tool_tasks[id].delivered))
        /\ ~Unfinished(id) => tool_tasks[id].delivered \in {<<>>, ToolResultEvents}

(***************************************************************************)
(* The advertised tool names.                                              *)
(***************************************************************************)

\* C39: no _run_tool call made with a name of the tool catalog has ended in
\* the unsupported-tool error: every advertised name, once normalized, is a
\* key of tool_handlers.
C39_AdvertisedNamesResolve ==
    \A i \in 1..Len(retail_log) : retail_log[i].ran # Unsupported

(***************************************************************************)
(* Terminating a session.                                                  *)
(***************************************************************************)

\* the SESSION_TERMINATED records of a session in an audit log
Terminations(ha, sid) ==
    {i \in 1..Len(ha) : ha[i].sessionId = sid /\ ha[i].action = "SESSION_TERMINATED"}

\* C40: a session is terminated at most once: no step changes the
\* terminationReason or the terminatedAt of a session that already has a
\* terminationReason, or adds a SESSION_TERMINATED audit record for it.
C40_SessionTerminatedAtMostOnce ==
    [][\A sid \in DOMAIN sessions_table :
          sessions_table[sid].terminationReason # NoValue
          => /\ sessions_table'[sid].terminationReason
                    = sessions_table[sid].terminationReason
             /\ sessions_table'[sid].terminatedAt = sessions_table[sid].terminatedAt
             /\ Terminations(audit_table', sid) = Terminations(audit_table, sid)]_vars

====
